---- MODULE Spec2Model ----
(***************************************************************************)
(* Model of the calculation core of calc_app (Ragnarok "Special Pharmacy" *)
(* calculator): the formula evaluator (core/engine.py), the outcome       *)
(* enumerator and the bucketizer (core/stats.py) and the rules model      *)
(* (core/pharmacy_special.py).                                            *)
(*                                                                         *)
(* The functions are pure.  Each one is an operator computed the way the  *)
(* code computes it; a return value is a record whose field err is        *)
(* "none" for a normal return (the value in field val) or the name of the *)
(* exception the call raises.  A specification draws the arguments in its *)
(* initial state and its actions apply the function.                      *)
(***************************************************************************)
EXTENDS Integers, Sequences, FiniteSets

VARIABLES
    inp,            \* the character inputs of a special_pharmacy / enumerate call
    draw,           \* the two random draws (rand_30_150, rand_4_10) of the call
    sp_ret,         \* what special_pharmacy returned (or raised)
    outcomes,       \* what enumerate_special_pharmacy_results returned
    bk_results,     \* the outcome list handed to the bucketizer
    bk_difficulty,  \* the difficulty handed to the bucketizer
    bk_ret,         \* what pharmacy_special_probability_by_ranges returned
    doc,            \* the raw document handed to Rules.from_dict
    rules_ret,      \* what Rules.from_dict returned (or raised)
    call,           \* the last query made on the loaded Rules, with its arguments
    call_ret,       \* what that query returned (or raised)
    recipe_field,   \* the raw recipe field handed to parse_recipe
    recipe_ret,     \* what parse_recipe returned
    _prices_cache,  \* AppState._prices_cache: str(id) -> price
    _pharmacy_special_snapshot,  \* AppState._pharmacy_special_snapshot, or None
    spin_adv,       \* the advanced-pharmacy level of the pharmacy page
    cost_rows,      \* the rows of the table of the production-cost page
    calc_ret,       \* how the last calculate of the pharmacy page ended
    _base_prices_snapshot,  \* AppState._base_prices_snapshot
    user_prices_file,       \* the content of the user's prices file
    prices_default_file,    \* the content of the packaged default prices file
    _stats,         \* AppState._stats
    _levels,        \* AppState._levels
    _skills,        \* AppState._skills
    _buffs,         \* AppState._buffs
    spin_job,       \* the spin boxes of the pharmacy page
    spin_base,
    spin_pr,
    spin_cpf,
    _recalc_timer,  \* whether the single-shot recalculation timer is running
    emitted,        \* the signals AppState emitted in the last step, in order
    api_call,       \* the call on AppState of the last step, with what it returned
    user_profile_file,      \* the content of the user's profile file
    profile_default_file    \* the content of the packaged default profile file

vars ==
    <<inp, draw, sp_ret, outcomes, bk_results, bk_difficulty, bk_ret, doc, rules_ret,
      call, call_ret, recipe_field, recipe_ret,
      _prices_cache, _pharmacy_special_snapshot, spin_adv, cost_rows, calc_ret,
      _base_prices_snapshot, user_prices_file, prices_default_file,
      _stats, _levels, _skills, _buffs, spin_job, spin_base, spin_pr, spin_cpf,
      _recalc_timer, emitted, api_call, user_profile_file, profile_default_file>>

engineVars == <<inp, draw, sp_ret, outcomes>>
statsVars  == <<bk_results, bk_difficulty, bk_ret>>
rulesVars  == <<doc, rules_ret>>
queryVars  == <<call, call_ret>>
recipeVars == <<recipe_field, recipe_ret>>
libraryVars == <<engineVars, statsVars, rulesVars, queryVars, recipeVars>>
fileVars ==
    <<user_prices_file, prices_default_file, user_profile_file, profile_default_file>>
characterVars == <<_stats, _levels, _skills, _buffs>>
spinVars == <<spin_job, spin_base, spin_pr, spin_cpf, spin_adv>>
priceVars == <<_prices_cache, _base_prices_snapshot>>
appVars ==
    <<priceVars, _pharmacy_special_snapshot, cost_rows, calc_ret, fileVars,
      characterVars, spinVars, _recalc_timer, emitted, api_call>>

\* The value of a result variable before the call has been made.
Uncalled == [err |-> "uncalled"]

Returned(v) == [err |-> "none", val |-> v]

Raised(e) == [err |-> e]

(***************************************************************************)
(* core/engine.py                                                          *)
(***************************************************************************)
R1_MIN == 30
R1_MAX == 150
R2_MIN == 4
R2_MAX == 10

\* How far outside [R1_MIN, R1_MAX] and [R2_MIN, R2_MAX] the draws of the
\* model go.
DrawMargin == 2

\* int(x) of Python for the float x = n / 2: truncation toward zero.
\* (\div of TLA+ rounds toward minus infinity.)
IntOfHalves(n) == IF n >= 0 THEN n \div 2 ELSE -((-n) \div 2)

\* Twice the float sum `value` of special_pharmacy.  des_stat / 2.0 is an
\* exact multiple of 0.5 and every other term is an integer, so for the
\* magnitudes of the model the double arithmetic is exact and value is
\* RawTimesTwo / 2.
RawTimesTwo(i, r1, r2) ==
    2 * ( i.int_stat
        + i.sor_stat
        + i.job_level
        + r1
        + (i.base_level - 100)
        + (i.potion_research_level * 5)
        + (i.chemical_protection_level * r2) )
    + i.des_stat

\* A guard that lets the lower end of the range through.
special_pharmacy_loose_guard(i, r1, r2) ==
    IF ~(R1_MIN - 1 <= r1 /\ r1 <= R1_MAX) THEN Raised("ValueError")
    ELSE IF ~(R2_MIN - 1 <= r2 /\ r2 <= R2_MAX) THEN Raised("ValueError")
    ELSE Returned(IntOfHalves(RawTimesTwo(i, r1, r2)))

\* Integer division of DEX (floor) in place of float division and a final cast.
special_pharmacy_floor(i, r1, r2) ==
    IF ~(R1_MIN <= r1 /\ r1 <= R1_MAX) THEN Raised("ValueError")
    ELSE IF ~(R2_MIN <= r2 /\ r2 <= R2_MAX) THEN Raised("ValueError")
    ELSE Returned(RawTimesTwo(i, r1, r2) \div 2)

\* A final cast that rounds a half up instead of cutting it off.
special_pharmacy_half_up(i, r1, r2) ==
    IF ~(R1_MIN <= r1 /\ r1 <= R1_MAX) THEN Raised("ValueError")
    ELSE IF ~(R2_MIN <= r2 /\ r2 <= R2_MAX) THEN Raised("ValueError")
    ELSE Returned((RawTimesTwo(i, r1, r2) + 1) \div 2)

special_pharmacy(i, r1, r2) ==
    IF ~(R1_MIN <= r1 /\ r1 <= R1_MAX) THEN Raised("ValueError")
    ELSE IF ~(R2_MIN <= r2 /\ r2 <= R2_MAX) THEN Raised("ValueError")
    ELSE Returned(IntOfHalves(RawTimesTwo(i, r1, r2)))

(***************************************************************************)
(* core/stats.py: the enumerator                                           *)
(***************************************************************************)
SPECIAL_PHARMACY_R1_TOTAL == R1_MAX - R1_MIN + 1
SPECIAL_PHARMACY_R2_TOTAL == R2_MAX - R2_MIN + 1
PHARMACY_SPECIAL_TOTAL_COMBOS == SPECIAL_PHARMACY_R1_TOTAL * SPECIAL_PHARMACY_R2_TOTAL

\* The calls of the inner loop, for r2 in range(r2, R2_MAX + 1), at one r1,
\* in the order they are made.
RECURSIVE EnumInner(_, _, _)
EnumInner(i, r1, r2) ==
    IF r2 > R2_MAX THEN <<>>
    ELSE <<special_pharmacy(i, r1, r2)>> \o EnumInner(i, r1, r2 + 1)

\* The calls of the outer loop for r1 = lo, lo + 1, ..., hi, in the order they
\* are made.  (The range is halved instead of peeled one r1 at a time, which
\* keeps the evaluation shallow; the order of the calls is the loop's.)
RECURSIVE EnumOuter(_, _, _)
EnumOuter(i, lo, hi) ==
    IF lo > hi THEN <<>>
    ELSE IF lo = hi THEN EnumInner(i, lo, R2_MIN)
    ELSE LET mid == (lo + hi) \div 2
         IN  EnumOuter(i, lo, mid) \o EnumOuter(i, mid + 1, hi)

\* The comprehension with the loops exchanged: r2 outside, r1 inside.
RECURSIVE EnumInnerSwapped(_, _, _, _)
EnumInnerSwapped(i, lo, hi, r2) ==
    IF lo > hi THEN <<>>
    ELSE IF lo = hi THEN <<special_pharmacy(i, lo, r2)>>
    ELSE LET mid == (lo + hi) \div 2
         IN  EnumInnerSwapped(i, lo, mid, r2) \o EnumInnerSwapped(i, mid + 1, hi, r2)

RECURSIVE EnumOuterSwapped(_, _)
EnumOuterSwapped(i, r2) ==
    IF r2 > R2_MAX THEN <<>>
    ELSE EnumInnerSwapped(i, R1_MIN, R1_MAX, r2) \o EnumOuterSwapped(i, r2 + 1)

\* A list comprehension raises what the first failing call raises and
\* otherwise returns the list of the values.
ListOfCalls(calls) ==
    IF \E k \in 1..Len(calls) : calls[k].err # "none"
    THEN LET first == CHOOSE k \in 1..Len(calls) :
                        /\ calls[k].err # "none"
                        /\ \A j \in 1..(k - 1) : calls[j].err = "none"
         IN  Raised(calls[first].err)
    ELSE Returned([k \in 1..Len(calls) |-> calls[k].val])

enumerate_swapped_loops(i) == ListOfCalls(EnumOuterSwapped(i, R2_MIN))

enumerate_special_pharmacy_results(i) == ListOfCalls(EnumOuter(i, R1_MIN, R1_MAX))

(***************************************************************************)
(* core/stats.py: the bucketizer                                           *)
(***************************************************************************)
labels == <<"MAX", "MAX-3", "MAX-4", "MAX-5", "MAX-6">>

Labels == {labels[k] : k \in 1..Len(labels)}

\* The chain with a strict comparison for the top tier.
TierStrictMax(val, difficulty) ==
    LET t1 == difficulty + 400
        t2 == difficulty + 300
        t3 == difficulty + 100
        t4 == difficulty
    IN  IF val > t1 THEN "MAX"
        ELSE IF val >= t2 THEN "MAX-3"
        ELSE IF val >= t3 THEN "MAX-4"
        ELSE IF val >= t4 THEN "MAX-5"
        ELSE "MAX-6"

\* The chain with the MAX-4 threshold at difficulty + 200.
TierWrongOffset(val, difficulty) ==
    LET t1 == difficulty + 400
        t2 == difficulty + 300
        t3 == difficulty + 200
        t4 == difficulty
    IN  IF val >= t1 THEN "MAX"
        ELSE IF val >= t2 THEN "MAX-3"
        ELSE IF val >= t3 THEN "MAX-4"
        ELSE IF val >= t4 THEN "MAX-5"
        ELSE "MAX-6"

\* The chain without its final else: a value below the difficulty is counted
\* nowhere.
TierNoElse(val, difficulty) ==
    LET t1 == difficulty + 400
        t2 == difficulty + 300
        t3 == difficulty + 100
        t4 == difficulty
    IN  IF val >= t1 THEN "MAX"
        ELSE IF val >= t2 THEN "MAX-3"
        ELSE IF val >= t3 THEN "MAX-4"
        ELSE IF val >= t4 THEN "MAX-5"
        ELSE "uncounted"

\* The if / elif chain of the loop body: the key of the counter that one
\* outcome increments.
Tier(val, difficulty) ==
    LET t1 == difficulty + 400
        t2 == difficulty + 300
        t3 == difficulty + 100
        t4 == difficulty
    IN  IF val >= t1 THEN "MAX"
        ELSE IF val >= t2 THEN "MAX-3"
        ELSE IF val >= t3 THEN "MAX-4"
        ELSE IF val >= t4 THEN "MAX-5"
        ELSE "MAX-6"

\* The counters after the loop has run over results[lo..hi], every counter
\* starting at 0 and each outcome adding 1 to the counter of its tier.  (The
\* range is halved instead of peeled one outcome at a time, which keeps the
\* evaluation shallow; additions commute.)
RECURSIVE Tally(_, _, _, _)
Tally(results, lo, hi, difficulty) ==
    IF lo > hi THEN [k \in Labels |-> 0]
    ELSE IF lo = hi
         THEN [k \in Labels |-> IF k = Tier(results[lo], difficulty) THEN 1 ELSE 0]
    ELSE LET mid   == (lo + hi) \div 2
             left  == Tally(results, lo, mid, difficulty)
             right == Tally(results, mid + 1, hi, difficulty)
         IN  [k \in Labels |-> left[k] + right[k]]

\* The float v / PHARMACY_SPECIAL_TOTAL_COMBOS, kept as the exact ratio it
\* rounds.
Ratio(n, d) == [num |-> n, den |-> d]

pharmacy_special_probability_by_ranges(results, difficulty) ==
    LET counts == Tally(results, 1, Len(results), difficulty)
    IN  Returned([k \in Labels |->
                    [count |-> counts[k],
                     prob  |-> Ratio(counts[k], PHARMACY_SPECIAL_TOTAL_COMBOS)]])

(***************************************************************************)
(* core/pharmacy_special.py: the rules model                               *)
(*                                                                         *)
(* A raw JSON value is a record with a field kind: an integer              *)
(* [kind |-> "int", v |-> n], a float [kind |-> "float", twice |-> n] (the *)
(* float n / 2), a string [kind |-> "str", s |-> <<characters>>], null     *)
(* [kind |-> "null"], a list [kind |-> "list"], or a dict                  *)
(* [kind |-> "dict", items |-> <<<<key, value>>, ...>>] whose items are in *)
(* insertion order with pairwise different keys.  The document handed to   *)
(* from_dict is a raw value; a document that is a dict is                  *)
(* [kind |-> "dict", v |-> f] with f a function from its keys to values.   *)
(***************************************************************************)
MIN_LEVEL == 0
MAX_LEVEL == 10

RaisedWith(e, msg) == [err |-> e, msg |-> msg]

Digits == <<"0", "1", "2", "3", "4", "5", "6", "7", "8", "9">>

DigitChars == {Digits[k] : k \in 1..Len(Digits)}

DigitValue(c) == (CHOOSE k \in 1..Len(Digits) : Digits[k] = c) - 1

\* The value of a non-empty sequence of decimal digits, most significant first.
RECURSIVE DigitsValue(_, _, _)
DigitsValue(chars, k, acc) ==
    IF k > Len(chars) THEN acc
    ELSE DigitsValue(chars, k + 1, acc * 10 + DigitValue(chars[k]))

\* int(s) for a string s: an optional sign followed by decimal digits, which
\* single underscores may separate ("2_3" is 23), and ValueError for
\* anything else.  (Surrounding blanks, which int also accepts, do not occur
\* in the strings of the model.)
ParseInt(chars) ==
    LET signed == Len(chars) > 0 /\ chars[1] \in {"+", "-"}
        body   == IF signed THEN Tail(chars) ELSE chars
        digits == SelectSeq(body, LAMBDA c : c # "_")
    IN  IF \/ body = <<>>
           \/ \E k \in 1..Len(body) : body[k] \notin DigitChars \cup {"_"}
           \/ body[1] = "_" \/ body[Len(body)] = "_"
           \/ \E k \in 1..(Len(body) - 1) : body[k] = "_" /\ body[k + 1] = "_"
        THEN Raised("ValueError")
        ELSE IF signed /\ chars[1] = "-"
             THEN Returned(-DigitsValue(digits, 1, 0))
             ELSE Returned(DigitsValue(digits, 1, 0))

\* int(x) for a raw JSON value x.
CoerceInt(x) ==
    CASE x.kind = "int"   -> Returned(x.v)
      [] x.kind = "float" -> Returned(IntOfHalves(x.twice))
      [] x.kind = "str"   -> ParseInt(x.s)
      [] OTHER            -> Raised("TypeError")

\* d[k] = v on a dict d: a new key is added, an old one gets the new value.
Put(d, k, v) == [x \in (DOMAIN d) \cup {k} |-> IF x = k THEN v ELSE d[x]]

EmptyDict == [x \in {} |-> 0]

\* {int(k): int(v) for k, v in items}, from the k-th item on, with the dict
\* built so far: int(k) is evaluated before int(v), the first exception ends
\* the comprehension, and a later item replaces an earlier one of the same
\* integer key.
RECURSIVE CoerceItems(_, _, _)
CoerceItems(items, k, acc) ==
    IF k > Len(items) THEN Returned(acc)
    ELSE LET key == CoerceInt(items[k][1])
             val == CoerceInt(items[k][2])
         IN  IF key.err # "none" THEN Raised(key.err)
             ELSE IF val.err # "none" THEN Raised(val.err)
             ELSE CoerceItems(items, k + 1, Put(acc, key.val, val.val))

\* {int(k): int(v) for k, v in data.get(name, {}).items()}: a value that is
\* not a dict has no method items.
CoerceSection(data, name) ==
    LET section == IF name \in DOMAIN data
                   THEN data[name]
                   ELSE [kind |-> "dict", items |-> <<>>]
    IN  IF section.kind # "dict" THEN Raised("AttributeError")
        ELSE CoerceItems(section.items, 1, EmptyDict)

\* sorted(S) for a finite set S of integers.
RECURSIVE Sorted(_)
Sorted(S) ==
    IF S = {} THEN <<>>
    ELSE LET least == CHOOSE x \in S : \A y \in S : x <= y
         IN  <<least>> \o Sorted(S \ {least})

\* Rules._validate: None, or the InvalidRulesError it raises.
_validate(rules) ==
    IF \/ DOMAIN rules.diff_by_level = {}
       \/ DOMAIN rules.max_by_level = {}
       \/ DOMAIN rules.diff_by_item_id = {}
    THEN RaisedWith("InvalidRulesError", "Missing or empty sections")
    ELSE IF \E lvl \in DOMAIN rules.diff_by_level : ~(MIN_LEVEL <= lvl /\ lvl <= MAX_LEVEL)
    THEN RaisedWith("InvalidRulesError", "Invalid level key")
    ELSE IF \E k \in DOMAIN rules.diff_by_level : rules.diff_by_level[k] < 0
    THEN RaisedWith("InvalidRulesError", "base_difficulty_by_level must be non-negative integers.")
    ELSE IF \E k \in DOMAIN rules.max_by_level : rules.max_by_level[k] < 0
    THEN RaisedWith("InvalidRulesError", "max_potions_by_level must be non-negative integers.")
    ELSE IF \E k \in DOMAIN rules.diff_by_item_id : rules.diff_by_item_id[k] < 0
    THEN RaisedWith("InvalidRulesError", "base_difficulty_by_item_id must be non-negative integers.")
    ELSE Returned("None")

\* What the try block of from_dict lets out: TypeError and ValueError become
\* InvalidRulesError, any other exception passes.
CoercionFailure(e) ==
    IF e \in {"TypeError", "ValueError"}
    THEN RaisedWith("InvalidRulesError", "Failed to coerce values to int")
    ELSE Raised(e)

\* A from_dict that takes item_ids from the document when the document has
\* the key, instead of deriving it from the item section.
from_dict_trusts_item_ids(data) ==
    IF data.kind # "dict"
    THEN RaisedWith("InvalidRulesError", "Rules JSON must be a dict.")
    ELSE
    LET raw_diff_by_level == CoerceSection(data.v, "base_difficulty_by_level")
        raw_max_by_level  == CoerceSection(data.v, "max_potions_by_level")
        raw_diff_by_item  == CoerceSection(data.v, "base_difficulty_by_item_id")
    IN  IF raw_diff_by_level.err # "none" THEN CoercionFailure(raw_diff_by_level.err)
        ELSE IF raw_max_by_level.err # "none" THEN CoercionFailure(raw_max_by_level.err)
        ELSE IF raw_diff_by_item.err # "none" THEN CoercionFailure(raw_diff_by_item.err)
        ELSE LET given == IF "item_ids" \in DOMAIN data.v
                          THEN [k \in 1..Len(data.v["item_ids"].elems) |->
                                    data.v["item_ids"].elems[k].v]
                          ELSE Sorted(DOMAIN raw_diff_by_item.val)
                 rules == [ item_ids        |-> given,
                            diff_by_level   |-> raw_diff_by_level.val,
                            max_by_level    |-> raw_max_by_level.val,
                            diff_by_item_id |-> raw_diff_by_item.val ]
                 checked == _validate(rules)
             IN  IF checked.err # "none" THEN checked ELSE Returned(rules)

\* Rules.from_dict(data).
from_dict(data) ==
    IF data.kind # "dict"
    THEN RaisedWith("InvalidRulesError", "Rules JSON must be a dict.")
    ELSE
    LET raw_diff_by_level == CoerceSection(data.v, "base_difficulty_by_level")
        raw_max_by_level  == CoerceSection(data.v, "max_potions_by_level")
        raw_diff_by_item  == CoerceSection(data.v, "base_difficulty_by_item_id")
    IN  IF raw_diff_by_level.err # "none" THEN CoercionFailure(raw_diff_by_level.err)
        ELSE IF raw_max_by_level.err # "none" THEN CoercionFailure(raw_max_by_level.err)
        ELSE IF raw_diff_by_item.err # "none" THEN CoercionFailure(raw_diff_by_item.err)
        ELSE LET rules == [ item_ids        |-> Sorted(DOMAIN raw_diff_by_item.val),
                            diff_by_level   |-> raw_diff_by_level.val,
                            max_by_level    |-> raw_max_by_level.val,
                            diff_by_item_id |-> raw_diff_by_item.val ]
                 checked == _validate(rules)
             IN  IF checked.err # "none" THEN checked ELSE Returned(rules)

(***************************************************************************)
(* The query helpers of Rules (pharmacy_special.py)                        *)
(***************************************************************************)

\* A lookup that raises LevelOutOfRange only for a level outside
\* MIN_LEVEL..MAX_LEVEL and gives 0 for an absent level inside it.
base_difficulty_by_level_range_checked(self, level) ==
    IF level \in DOMAIN self.diff_by_level THEN Returned(self.diff_by_level[level])
    ELSE IF level < MIN_LEVEL \/ level > MAX_LEVEL THEN Raised("LevelOutOfRange")
    ELSE Returned(0)

\* Rules.base_difficulty_by_level(level): self.diff_by_level[level], with
\* the KeyError of an absent key turned into LevelOutOfRange.
base_difficulty_by_level(self, level) ==
    IF level \in DOMAIN self.diff_by_level
    THEN Returned(self.diff_by_level[level])
    ELSE Raised("LevelOutOfRange")

\* A lookup that gives 0 for an item the table does not contain.
base_difficulty_by_item_id_default(self, item_id) ==
    IF item_id \in DOMAIN self.diff_by_item_id
    THEN Returned(self.diff_by_item_id[item_id])
    ELSE Returned(0)

\* Rules.base_difficulty_by_item_id(item_id): self.diff_by_item_id[item_id],
\* with the KeyError of an absent key turned into UnknownItemId.
base_difficulty_by_item_id(self, item_id) ==
    IF item_id \in DOMAIN self.diff_by_item_id
    THEN Returned(self.diff_by_item_id[item_id])
    ELSE Raised("UnknownItemId")

\* A sum that looks the item up before the level.
item_difficulty_item_first(self, item_id, level) ==
    LET by_item == base_difficulty_by_item_id(self, item_id)
        by_level == base_difficulty_by_level(self, level)
    IN  IF by_item.err # "none" THEN by_item
        ELSE IF by_level.err # "none" THEN by_level
        ELSE Returned(by_level.val + by_item.val)

\* Rules.item_difficulty(item_id, level): the left operand of + (the level
\* lookup) is evaluated first, and an exception of either lookup leaves the
\* method.
item_difficulty(self, item_id, level) ==
    LET by_level == base_difficulty_by_level(self, level)
        by_item == base_difficulty_by_item_id(self, item_id)
    IN  IF by_level.err # "none" THEN by_level
        ELSE IF by_item.err # "none" THEN by_item
        ELSE Returned(by_level.val + by_item.val)

\* A cap lookup that raises for an absent level as the difficulty lookup does.
potion_cap_strict(self, level, fallback) ==
    IF level \in DOMAIN self.max_by_level
    THEN Returned(self.max_by_level[level])
    ELSE Raised("LevelOutOfRange")

\* Rules.potion_cap(level, fallback): self.max_by_level.get(level, fallback).
potion_cap(self, level, fallback) ==
    IF level \in DOMAIN self.max_by_level
    THEN Returned(self.max_by_level[level])
    ELSE Returned(fallback)

(***************************************************************************)
(* parse_recipe (catalog.py)                                               *)
(*                                                                         *)
(* A string is the sequence of its characters; a (materialId, quantity)    *)
(* tuple is <<materialId, quantity>>.                                      *)
(***************************************************************************)

\* s.replace(" ", "").
RemoveSpaces(chars) == SelectSeq(chars, LAMBDA c : c # " ")

\* s.split(sep) from the k-th character on, cur being the piece begun: a
\* string without sep gives one piece, the empty string gives <<"">>.
RECURSIVE SplitFrom(_, _, _, _)
SplitFrom(chars, sep, k, cur) ==
    IF k > Len(chars) THEN <<cur>>
    ELSE IF chars[k] = sep THEN <<cur>> \o SplitFrom(chars, sep, k + 1, <<>>)
    ELSE SplitFrom(chars, sep, k + 1, Append(cur, chars[k]))

Split(chars, sep) == SplitFrom(chars, sep, 1, <<>>)

\* part.split("_", 1): the pieces before and after the first underscore, or
\* the part alone when it has none.
SplitOnce(part) ==
    IF \E k \in 1..Len(part) : part[k] = "_"
    THEN LET u == CHOOSE k \in 1..Len(part) :
                      part[k] = "_" /\ \A j \in 1..(k - 1) : part[j] # "_"
         IN  <<SubSeq(part, 1, u - 1), SubSeq(part, u + 1, Len(part))>>
    ELSE <<part>>

\* A loop body that appends every pair it can read, whatever its sign.
ParsePartUnfiltered(part) ==
    IF part = <<>> THEN <<>>
    ELSE LET pieces == SplitOnce(part)
         IN  IF Len(pieces) # 2 THEN <<>>
             ELSE LET qty == ParseInt(pieces[1])
                      mid == ParseInt(pieces[2])
                  IN  IF qty.err # "none" \/ mid.err # "none" THEN <<>>
                      ELSE << <<mid.val, qty.val>> >>

\* The body of the loop of parse_recipe for one part: what it appends to
\* out.  An empty part is skipped; the unpacking of a part without
\* underscore and an int() of a piece that is no integer raise inside the
\* try, whose except passes; a pair is appended only for qty > 0 and
\* mid >= 0.
ParsePart(part) ==
    IF part = <<>> THEN <<>>
    ELSE LET pieces == SplitOnce(part)
         IN  IF Len(pieces) # 2 THEN <<>>
             ELSE LET qty == ParseInt(pieces[1])
                      mid == ParseInt(pieces[2])
                  IN  IF qty.err # "none" \/ mid.err # "none" THEN <<>>
                      ELSE IF qty.val > 0 /\ mid.val >= 0
                           THEN << <<mid.val, qty.val>> >>
                           ELSE <<>>

\* The loop of parse_recipe over parts, from the k-th part on.
RECURSIVE ParseParts(_, _)
ParseParts(parts, k) ==
    IF k > Len(parts) THEN <<>>
    ELSE ParsePart(parts[k]) \o ParseParts(parts, k + 1)

\* parse_recipe(recipe_field): [] for a value that is falsy or no string.
parse_recipe(field) ==
    IF field.kind # "str" \/ field.s = <<>>
    THEN Returned(<<>>)
    ELSE Returned(ParseParts(Split(RemoveSpaces(field.s), "+"), 1))

(***************************************************************************)
(* The character inputs and draws of the model                             *)
(***************************************************************************)
IntStats         == {1, 100}
DesStats         == {1, 100}
SorStats         == {1, 100}
JobLevels        == {1, 50}
BaseLevels       == {1, 120}
ResearchLevels   == {0, 10}
ProtectionLevels == {0, 5}

CharacterInputs ==
    [ int_stat : IntStats, des_stat : DesStats, sor_stat : SorStats,
      job_level : JobLevels, base_level : BaseLevels,
      potion_research_level : ResearchLevels,
      chemical_protection_level : ProtectionLevels ]

Draws ==
    [ r1 : (R1_MIN - DrawMargin)..(R1_MAX + DrawMargin),
      r2 : (R2_MIN - DrawMargin)..(R2_MAX + DrawMargin) ]

InRange(d) ==
    /\ R1_MIN <= d.r1 /\ d.r1 <= R1_MAX
    /\ R2_MIN <= d.r2 /\ d.r2 <= R2_MAX

\* The longest outcome list built from OutcomeValues.
MaxOutcomes == 3

\* Outcome values on and next to the thresholds of the difficulties below.
OutcomeValues == {100, 200, 299, 300, 400, 500, 599, 600}

Difficulties == {0, 200, 490}

\* The outcome list of concrete scenario 3 of the specification.
Scenario3 == <<100, 200, 300, 400, 500, 600>>

\* The inputs of concrete scenario 2 of the specification.
Scenario2 ==
    [ int_stat |-> 100, des_stat |-> 100, sor_stat |-> 100,
      job_level |-> 50, base_level |-> 120,
      potion_research_level |-> 10, chemical_protection_level |-> 5 ]

SeqsUpTo(S, n) == UNION {[1..m -> S] : m \in 0..n}

OutcomeLists ==
    SeqsUpTo(OutcomeValues, MaxOutcomes)
        \cup {Scenario3, enumerate_special_pharmacy_results(Scenario2).val}

\* The most items a section of a modelled document holds.
MaxEntries == 2

IntValue(n) == [kind |-> "int", v |-> n]

StrValue(chars) == [kind |-> "str", s |-> chars]

\* The keys and values of the three sections of the modelled documents:
\* level keys that are valid ("1"), that coerce to the same integer ("01")
\* and that lie outside 0..10 ("11"); item keys out of order and one that is
\* no integer ("x"); values that are non-negative, negative (-1 and the float
\* -0.5) and null.
DiffByLevelKeys == {StrValue(<<"1">>), StrValue(<<"0", "1">>), StrValue(<<"1", "1">>)}

DiffByLevelValues == {IntValue(10), IntValue(-1)}

MaxByLevelKeys == {StrValue(<<"1">>), StrValue(<<"1", "1">>)}

MaxByLevelValues == {IntValue(2), IntValue(-1), [kind |-> "float", twice |-> -1], [kind |-> "null"]}

DiffByItemKeys ==
    {StrValue(<<"1", "0", "0", "2">>), StrValue(<<"1", "0", "0", "1">>), StrValue(<<"x">>)}

DiffByItemValues == {IntValue(5), IntValue(-1)}

\* What a document may hold under a section's name: nothing (Absent), a list,
\* or a dict of at most MaxEntries items over the keys and values given.
Absent == [kind |-> "absent"]

RawSections(Keys, Values) ==
    {Absent, [kind |-> "list"]}
        \cup { [kind |-> "dict", items |-> items] :
                 items \in { q \in SeqsUpTo(Keys \X Values, MaxEntries) :
                               \A a, b \in 1..Len(q) : a # b => q[a][1] # q[b][1] } }

SectionNames == {"base_difficulty_by_level", "max_potions_by_level", "base_difficulty_by_item_id"}

\* What a document may hold under the key item_ids, which to_dict writes and
\* from_dict never reads: nothing, or a list that names an id (9999) the
\* item section has no key for, before an id (1001) it may have.
ItemIdsValues == {Absent, [kind |-> "list", elems |-> <<IntValue(9999), IntValue(1001)>>]}

DocumentKeys == SectionNames \cup {"item_ids"}

Documents ==
    {StrValue(<<"x">>)}
        \cup { [kind |-> "dict",
                v |-> [n \in {n \in DocumentKeys : r[n] # Absent} |-> r[n]]] :
                 r \in [ base_difficulty_by_level   : RawSections(DiffByLevelKeys, DiffByLevelValues),
                         max_potions_by_level       : RawSections(MaxByLevelKeys, MaxByLevelValues),
                         base_difficulty_by_item_id : RawSections(DiffByItemKeys, DiffByItemValues),
                         item_ids                   : ItemIdsValues ] }

\* The sections of valid_rules_payload of the tests.
PayloadLevels ==
    << <<StrValue(<<"0">>), IntValue(0)>>, <<StrValue(<<"1">>), IntValue(10)>>,
       <<StrValue(<<"1", "0">>), IntValue(100)>> >>

PayloadCaps ==
    << <<StrValue(<<"0">>), IntValue(1)>>, <<StrValue(<<"1">>), IntValue(2)>>,
       <<StrValue(<<"1", "0">>), IntValue(10)>> >>

PayloadItems ==
    << <<StrValue(<<"1", "0", "0", "1">>), IntValue(5)>>,
       <<StrValue(<<"1", "0", "0", "2">>), IntValue(15)>> >>

\* The dict sections that hold some, at least one, of the given items.
SectionsOf(items) ==
    { [kind |-> "dict", items |-> SelectSeq(items, LAMBDA x : x \in S)] :
        S \in (SUBSET {items[k] : k \in 1..Len(items)}) \ {{}} }

\* The documents the queried Rules instances are loaded from: the payload
\* of the tests and what is left of it when items are taken out.
RulesDocuments ==
    { [kind |-> "dict", v |-> r] :
        r \in [ base_difficulty_by_level   : SectionsOf(PayloadLevels),
                max_potions_by_level       : SectionsOf(PayloadCaps),
                base_difficulty_by_item_id : SectionsOf(PayloadItems) ] }

\* The arguments of the queries: levels below 0, above 10, in the payload
\* and inside 0..10 but not in it; items in the payload and not; fallbacks
\* that are not a cap of the payload and one (2) that is.
QueryLevels == {-1, 0, 1, 5, 10, 11}

QueryItemIds == {1001, 1002, 9999}

Fallbacks == {-1, 2, 99}

\* The most '+'-separated segments a modelled recipe is joined from.
MaxSegments == 3

\* The segments of the modelled recipes: well-formed ones ("10_713",
\* "5_528", and " 1_509" with a blank as in "10_713 + 1_509"); ones that are
\* not of the form QTY_ID ("ab", "", "7", "_5", "5_"); ones with an
\* integer quantity or id the loop rejects ("0_713", "-1_5", "5_-3"); and
\* one with a second underscore ("1_2_3").
RecipeSegments ==
    { <<"1", "0", "_", "7", "1", "3">>, <<"5", "_", "5", "2", "8">>,
      <<" ", "1", "_", "5", "0", "9">>,
      <<"a", "b">>, <<>>, <<"7">>, <<"_", "5">>, <<"5", "_">>,
      <<"0", "_", "7", "1", "3">>, <<"-", "1", "_", "5">>, <<"5", "_", "-", "3">>,
      <<"1", "_", "2", "_", "3">> }

\* "+".join(segs).
RECURSIVE Join(_)
Join(segs) ==
    IF Len(segs) = 0 THEN <<>>
    ELSE IF Len(segs) = 1 THEN segs[1]
    ELSE segs[1] \o <<"+">> \o Join(Tail(segs))

\* The two recipes of spec 8: "10_713+10_509+1_7455+5_528" and "abc+5_528".
SpecRecipe1 ==
    <<"1", "0", "_", "7", "1", "3", "+", "1", "0", "_", "5", "0", "9", "+",
      "1", "_", "7", "4", "5", "5", "+", "5", "_", "5", "2", "8">>

SpecRecipe2 == <<"a", "b", "c", "+", "5", "_", "5", "2", "8">>

\* The raw recipe fields of the model: strings joined from segments, the
\* two recipes of the specification, and values that are no string (null,
\* the numbers 0 and 5, a list).
RecipeFields ==
    { StrValue(Join(segs)) : segs \in SeqsUpTo(RecipeSegments, MaxSegments) }
        \cup {StrValue(SpecRecipe1), StrValue(SpecRecipe2)}
        \cup {[kind |-> "null"], IntValue(0), IntValue(5), [kind |-> "list"]}

(***************************************************************************)
(* core/catalog.py: the item catalog                                       *)
(*                                                                         *)
(* The catalog file is read once and cached; it is the list CatalogRows of *)
(* rows [id, name, type, recipe], name being the display name _pick_name   *)
(* finds (<<>> when the row has none), type the normalised type and recipe *)
(* the raw recipe field.  Ids are pairwise different.                      *)
(***************************************************************************)
NoneValue == [kind |-> "null"]

\* The catalog of the model: final item 1001 with the recipe and a name;
\* final item 1002 without a name; final item 1003 and item 1004 that share
\* one name; final item 1005, which the rules do not list, with a recipe
\* that has a malformed segment and a name that differs from that of 1001
\* in case only; the materials 713 and 509.
CatalogRows ==
    << [id |-> 1005, name |-> <<"B", "A">>, type |-> "final",
        recipe |-> StrValue(<<"a", "b", "+", "3", "_", "7", "1", "3">>)],
       [id |-> 1003, name |-> <<"a", "b">>, type |-> "final",
        recipe |-> StrValue(<<"2", "_", "5", "0", "9">>)],
       [id |-> 1001, name |-> <<"B", "a">>, type |-> "final",
        recipe |-> StrValue(<<"1", "0", "_", "7", "1", "3", "+", "1", "0", "_", "5", "0", "9">>)],
       [id |-> 1002, name |-> <<>>, type |-> "final",
        recipe |-> StrValue(<<"1", "_", "7", "1", "3">>)],
       [id |-> 1004, name |-> <<"a", "b">>, type |-> "material", recipe |-> NoneValue],
       [id |-> 713, name |-> <<"d">>, type |-> "material", recipe |-> NoneValue],
       [id |-> 509, name |-> <<"i">>, type |-> "material", recipe |-> NoneValue] >>

\* entry(item_id): the row of the id, or None.
entry(item_id) ==
    IF \E k \in 1..Len(CatalogRows) : CatalogRows[k].id = item_id
    THEN CatalogRows[CHOOSE k \in 1..Len(CatalogRows) : CatalogRows[k].id = item_id]
    ELSE NoneValue

\* id_to_name(item_id): _ingest_item keeps no row without a name, so the
\* lookup gives None for such a row as for an unknown id.
id_to_name(item_id) ==
    LET row == entry(item_id)
    IN  IF row = NoneValue THEN NoneValue
        ELSE IF row.name = <<>> THEN NoneValue
        ELSE StrValue(row.name)

\* final_item_ids(): items_with_type("final"), tuple(sorted(set(ids))).
final_item_ids ==
    Sorted({CatalogRows[k].id : k \in {k \in 1..Len(CatalogRows) : CatalogRows[k].type = "final"}})

\* raw_recipe(item_id) and parsed_recipe(item_id).
raw_recipe(item_id) ==
    LET row == entry(item_id)
    IN  IF row = NoneValue THEN NoneValue ELSE row.recipe

parsed_recipe(item_id) == parse_recipe(raw_recipe(item_id)).val

\* str(n) for an integer n: its decimal digits, after a minus sign for n < 0.
RECURSIVE DigitsOf(_)
DigitsOf(n) ==
    IF n < 10 THEN <<Digits[n + 1]>>
    ELSE Append(DigitsOf(n \div 10), Digits[(n % 10) + 1])

IntToStr(n) == IF n < 0 THEN <<"-">> \o DigitsOf(-n) ELSE DigitsOf(n)

(***************************************************************************)
(* app_state.py and gui/pages: rules, prices, the pharmacy snapshot and    *)
(* the production-cost rows                                                *)
(*                                                                         *)
(* A float that is a multiple of 1/847 is kept as the exact ratio          *)
(* [num, den] it rounds; 0.0 is Zero.  A display name is the sequence of   *)
(* its characters.                                                         *)
(***************************************************************************)

\* The rules document of the application: the levels and caps of the test
\* payload and a difficulty for each of the items 1001..1004.
AppRulesDocument ==
    [kind |-> "dict",
     v |-> [ base_difficulty_by_level |-> [kind |-> "dict", items |-> PayloadLevels],
             max_potions_by_level |-> [kind |-> "dict", items |-> PayloadCaps],
             base_difficulty_by_item_id |->
                 [kind |-> "dict",
                  items |-> << <<StrValue(<<"1", "0", "0", "1">>), IntValue(5)>>,
                               <<StrValue(<<"1", "0", "0", "2">>), IntValue(15)>>,
                               <<StrValue(<<"1", "0", "0", "3">>), IntValue(100)>>,
                               <<StrValue(<<"1", "0", "0", "4">>), IntValue(150)>> >>] ]]

\* AppState._rules, loaded once.
AppRules == from_dict(AppRulesDocument).val

\* str(k) for a key of a price blob.
KeyToStr(k) == IF k.kind = "int" THEN IntToStr(k.v) ELSE k.s

\* {str(k): int(v) for k, v in blob.items() if isinstance(v, (int, float))}
\* from the k-th item on.
RECURSIVE CleanPrices(_, _, _)
CleanPrices(items, k, acc) ==
    IF k > Len(items) THEN acc
    ELSE IF items[k][2].kind \in {"int", "float"}
         THEN CleanPrices(items, k + 1,
                          Put(acc, KeyToStr(items[k][1]), CoerceInt(items[k][2]).val))
         ELSE CleanPrices(items, k + 1, acc)

Zero == Ratio(0, 1)

\* min(results) and max(results) over results[lo..hi], lo <= hi.
RECURSIVE MinOver(_, _, _)
MinOver(results, lo, hi) ==
    IF lo = hi THEN results[lo]
    ELSE LET mid == (lo + hi) \div 2
             a == MinOver(results, lo, mid)
             b == MinOver(results, mid + 1, hi)
         IN  IF a <= b THEN a ELSE b

RECURSIVE MaxOver(_, _, _)
MaxOver(results, lo, hi) ==
    IF lo = hi THEN results[lo]
    ELSE LET mid == (lo + hi) \div 2
             a == MaxOver(results, lo, mid)
             b == MaxOver(results, mid + 1, hi)
         IN  IF a >= b THEN a ELSE b

\* The placeholder names of an item without a display name.
PharmacyPlaceholder(item_id) == <<"<", "i", "d", ":">> \o IntToStr(item_id) \o <<">">>

CostPlaceholder(item_id) == <<"#">> \o IntToStr(item_id)

\* An ItemRow whose average weights every tier but MAX with cap - 3.
ItemRowOneStep(difficulty, p, max_cap) ==
    [ difficulty |-> difficulty,
      p_max |-> p["MAX"], p_m3 |-> p["MAX-3"], p_m4 |-> p["MAX-4"],
      p_m5 |-> p["MAX-5"], p_m6 |-> p["MAX-6"],
      mean_weighted |->
          Ratio( max_cap * p["MAX"].num
                   + (max_cap - 3) * (p["MAX-3"].num + p["MAX-4"].num
                                        + p["MAX-5"].num + p["MAX-6"].num),
                 p["MAX"].den ) ]

\* weighted_avg and the ItemRow built from the five probabilities p.
ItemRow(difficulty, p, max_cap) ==
    LET weighted_avg ==
            Ratio( max_cap * p["MAX"].num
                     + (max_cap - 3) * p["MAX-3"].num
                     + (max_cap - 4) * p["MAX-4"].num
                     + (max_cap - 5) * p["MAX-5"].num
                     + (max_cap - 6) * p["MAX-6"].num,
                   p["MAX"].den )
    IN  [ difficulty |-> difficulty,
          p_max |-> p["MAX"], p_m3 |-> p["MAX-3"], p_m4 |-> p["MAX-4"],
          p_m5 |-> p["MAX-5"], p_m6 |-> p["MAX-6"],
          mean_weighted |-> weighted_avg ]

\* A turn of the loop that, when the lookup raises, buckets the outcomes
\* against difficulty 0 instead of leaving the probabilities at 0.0.
ItemSummaryBucketsAtZero(item_id, results, adv_level, max_cap) ==
    LET found == id_to_name(item_id)
        name == IF found = NoneValue THEN PharmacyPlaceholder(item_id) ELSE found.s
        looked == item_difficulty(AppRules, item_id, adv_level)
        difficulty == IF looked.err = "none" THEN looked.val ELSE 0
        distro == pharmacy_special_probability_by_ranges(results, difficulty).val
    IN  CHOOSE summary \in { [name |-> name, row |-> ItemRow(difficulty, p, max_cap)] :
                                p \in {[t \in Labels |-> distro[t].prob]} } : TRUE

\* One turn of the loop of calculate over the rules items: the display name
\* and the ItemRow of item_id.  An exception of the difficulty lookup is
\* caught and leaves difficulty 0 and the five probabilities 0.0.  (The
\* probabilities are bound by p \in {...}, which evaluates them once.)
ItemSummary(item_id, results, adv_level, max_cap) ==
    LET found == id_to_name(item_id)
        name == IF found = NoneValue THEN PharmacyPlaceholder(item_id) ELSE found.s
        looked == item_difficulty(AppRules, item_id, adv_level)
        difficulty == IF looked.err = "none" THEN looked.val ELSE 0
        distro == pharmacy_special_probability_by_ranges(results, difficulty).val
        probabilities == IF looked.err = "none"
                         THEN [t \in Labels |-> distro[t].prob]
                         ELSE [t \in Labels |-> Zero]
    IN  CHOOSE summary \in { [name |-> name, row |-> ItemRow(difficulty, p, max_cap)] :
                                p \in {probabilities} } : TRUE

\* per_item after the loop from the k-th rules item on: per_item[name] = row,
\* a later item of the same name replacing an earlier one.
RECURSIVE PerItem(_, _, _, _, _, _)
PerItem(item_ids, k, acc, results, adv_level, max_cap) ==
    IF k > Len(item_ids) THEN acc
    ELSE LET summary == ItemSummary(item_ids[k], results, adv_level, max_cap)
         IN  PerItem(item_ids, k + 1, Put(acc, summary.name, summary.row),
                     results, adv_level, max_cap)

\* The steps of calculate after the enumeration: the snapshot it publishes
\* for the outcome list results and the advanced-pharmacy level.  (The
\* extremes are bound by \in {...}, which evaluates them once.)
Summarize(results, adv_level) ==
    CHOOSE snap \in
        { [ results    |-> results,
            max_cap    |-> potion_cap(AppRules, adv_level, global_max).val,
            per_item   |-> PerItem(AppRules.item_ids, 1, EmptyDict, results, adv_level,
                                   potion_cap(AppRules, adv_level, global_max).val),
            global_min |-> global_min,
            global_max |-> global_max ] :
          global_min \in {MinOver(results, 1, Len(results))},
          global_max \in {MaxOver(results, 1, Len(results))} } : TRUE

\* PharmacySpecialPage.calculate for the effective stats and spin values i
\* and the advanced-pharmacy level.
calculate(i, adv_level) ==
    Summarize(enumerate_special_pharmacy_results(i).val, adv_level)

\* A cost loop that reads the price of every material as 1 when the table
\* has no entry for it.
MaterialsCostDefaultOne(prices, recipe, k) ==
    LET Price(mid) == IF IntToStr(mid) \in DOMAIN prices THEN prices[IntToStr(mid)] ELSE 1
        Cost[j \in 0..Len(recipe)] ==
            IF j = 0 THEN 0 ELSE Cost[j - 1] + Price(recipe[j][1]) * recipe[j][2]
    IN  Cost[Len(recipe)] - (IF k = 1 THEN 0 ELSE Cost[k - 1])

\* The loop of _materials_cost_per_use from the k-th pair of the recipe on:
\* int(prices.get(str(mid), 0)) * int(qty), summed.
RECURSIVE MaterialsCost(_, _, _)
MaterialsCost(prices, recipe, k) ==
    IF k > Len(recipe) THEN 0
    ELSE LET key == IntToStr(recipe[k][1])
             price == IF key \in DOMAIN prices THEN prices[key] ELSE 0
         IN  price * recipe[k][2] + MaterialsCost(prices, recipe, k + 1)

\* CustoProducaoPage._materials_cost_per_use(recipe) with the price table
\* load_prices_blob() returns.
_materials_cost_per_use(prices, recipe) == MaterialsCost(prices, recipe, 1)

\* CustoProducaoPage._mean_from_snapshot(item_name, snap): None without a
\* snapshot or without a row under the name, else the row's mean_weighted
\* (0.0 for a mean that is falsy).
_mean_from_snapshot(item_name, snap) ==
    IF snap = NoneValue THEN NoneValue
    ELSE IF item_name \notin DOMAIN snap.per_item THEN NoneValue
    ELSE LET stored == snap.per_item[item_name].mean_weighted
         IN  IF stored.num = 0 THEN Zero ELSE stored

\* A unit cost that is the number 0 where the mean is not positive.
UnitCostZero(mat, mean) ==
    IF mean.num > 0 THEN Ratio(mat * mean.den, mean.num) ELSE Zero

\* unit = (mat / mean) if mean > 0 else None.
UnitCost(mat, mean) ==
    IF mean.num > 0 THEN Ratio(mat * mean.den, mean.num) ELSE NoneValue

\* One turn of the loop of _recompute: the row of final item iid.
CostRow(iid, snap, prices) ==
    LET found == id_to_name(iid)
        name == IF found = NoneValue THEN CostPlaceholder(iid) ELSE found.s
        mat == _materials_cost_per_use(prices, parsed_recipe(iid))
        looked == _mean_from_snapshot(name, snap)
        mean == IF looked = NoneValue \/ looked = Zero THEN Zero ELSE looked
    IN  [iid |-> iid, name |-> name, mat |-> mat, mean |-> mean, unit |-> UnitCost(mat, mean)]

\* The characters of the display names, in code point order, and
\* str.casefold on them.
Alphabet ==
    <<"#", "0", "1", "2", "3", "4", "5", "6", "7", "8", "9", ":", "<", ">",
      "A", "B", "a", "b", "d", "i">>

Rank(c) == CHOOSE k \in 1..Len(Alphabet) : Alphabet[k] = c

casefold(name) ==
    [k \in 1..Len(name) |-> IF name[k] = "A" THEN "a"
                            ELSE IF name[k] = "B" THEN "b" ELSE name[k]]

\* a < b for two strings.
StrLess(a, b) ==
    \E k \in 1..Len(b) :
        /\ k <= Len(a) + 1
        /\ \A j \in 1..(k - 1) : a[j] = b[j]
        /\ k <= Len(a) => Rank(a[k]) < Rank(b[k])

\* An order by the name as written, then by id.
RowBeforeAsWritten(r, q) ==
    \/ StrLess(r.name, q.name)
    \/ r.name = q.name /\ r.iid < q.iid

\* The order of the sort key (name.casefold(), iid).
RowBefore(r, q) ==
    \/ StrLess(casefold(r.name), casefold(q.name))
    \/ casefold(r.name) = casefold(q.name) /\ r.iid < q.iid

\* rows.sort(key = ...) for rows of pairwise different keys.
RECURSIVE SortedRows(_)
SortedRows(S) ==
    IF S = {} THEN <<>>
    ELSE LET first == CHOOSE r \in S : \A q \in S \ {r} : RowBefore(r, q)
         IN  <<first>> \o SortedRows(S \ {first})

\* CustoProducaoPage._recompute(snap): the rows the table is filled with.
_recompute(snap, prices) ==
    SortedRows({ CostRow(final_item_ids[k], snap, prices) : k \in 1..Len(final_item_ids) })

\* The price blobs of the model, as read from the prices file or handed to
\* set_prices_live: material 713 without price, at 5, at the float 2.5 or
\* at the string "5"; material 509 without price, at 3 or at 0; and a
\* price under the key "0713".
PriceBlobs ==
    { SelectSeq(<< <<StrValue(<<"7", "1", "3">>), r.a>>,
                   <<StrValue(<<"5", "0", "9">>), r.b>>,
                   <<StrValue(<<"0", "7", "1", "3">>), r.c>> >>,
                LAMBDA item : item[2] # Absent) :
        r \in [ a : {Absent, IntValue(5), [kind |-> "float", twice |-> 5], StrValue(<<"5">>)},
                b : {Absent, IntValue(3), IntValue(0)},
                c : {Absent, IntValue(9)} ] }

\* The effective stats and spin values calculate is run with: scenario 2 and
\* the character at the minimum of every spin box.
CalcInputs ==
    { Scenario2,
      [ int_stat |-> 1, des_stat |-> 1, sor_stat |-> 1, job_level |-> 1, base_level |-> 101,
        potion_research_level |-> 0, chemical_protection_level |-> 0 ] }

\* The advanced-pharmacy levels calculate is run with: two levels of the
\* rules and one (5) the rules have no entry for.
AdvLevels == {1, 5, 10}

\* Skills.advanced_pharmacy of a fresh profile.
DefaultAdvLevel == 10

(***************************************************************************)
(* AppState: the character profile, the buffs and the setters              *)
(***************************************************************************)

\* CharacterStats(), CharacterLevels() and Skills(): the dataclass defaults.
CharacterStats ==
    [ for_stat |-> 100, agi_stat |-> 100, vit_stat |-> 100,
      int_stat |-> 100, des_stat |-> 100, sor_stat |-> 100 ]

CharacterLevels == [job_level |-> 50, base_level |-> 120]

Skills ==
    [ potion_research |-> 10, chemical_protection_full |-> 5,
      advanced_pharmacy |-> DefaultAdvLevel, pharmacy |-> 10 ]

\* core.buffs.BUFFS: the key and the additive deltas of every buff, in order.
BUFFS ==
    << [key |-> "gloria", add |-> [sor_stat |-> 30]],
       [key |-> "bencao", add |-> [int_stat |-> 10, des_stat |-> 10, for_stat |-> 10]],
       [key |-> "comida_int_grande", add |-> [int_stat |-> 20]],
       [key |-> "comida_sor_grande", add |-> [sor_stat |-> 20]],
       [key |-> "comida_des_grande", add |-> [des_stat |-> 20]],
       [key |-> "bolinho_divino",
        add |-> [ for_stat |-> 10, agi_stat |-> 10, vit_stat |-> 10,
                  int_stat |-> 10, des_stat |-> 10, sor_stat |-> 10 ]] >>

BuffKeys == {BUFFS[k].key : k \in 1..Len(BUFFS)}

\* apply_buffs(base, toggles): every enabled buff adds its deltas, from the
\* k-th buff on (no buff has a multiplier).
RECURSIVE AddBuffs(_, _, _)
AddBuffs(out, toggles, k) ==
    IF k > Len(BUFFS) THEN out
    ELSE LET b == BUFFS[k]
             next == IF toggles[b.key]
                     THEN [stat \in DOMAIN out |->
                              IF stat \in DOMAIN b.add THEN out[stat] + b.add[stat]
                              ELSE out[stat]]
                     ELSE out
         IN  AddBuffs(next, toggles, k + 1)

apply_buffs(base, toggles) == AddBuffs(base, toggles, 1)

\* dict.get(key, default) on a dict held as a function.
Get(d, key, default) == IF key \in DOMAIN d THEN d[key] ELSE default

\* AppState._coerce(dc_type, data): every field of the dataclass from data,
\* or its default; nothing is validated and other keys are dropped.
_coerce(defaults, data) == [f \in DOMAIN defaults |-> Get(data, f, defaults[f])]

\* {b.key: bool(prof_buffs.get(b.key, False)) for b in BUFFS}.
CoerceBuffs(prof_buffs) == [key \in BuffKeys |-> Get(prof_buffs, key, FALSE)]

\* The four groups a profile document data (a dict) is turned into.
ProfileOf(data) ==
    [ stats  |-> _coerce(CharacterStats, Get(data, "stats", EmptyDict)),
      levels |-> _coerce(CharacterLevels, Get(data, "levels", EmptyDict)),
      skills |-> _coerce(Skills, Get(data, "skills", EmptyDict)),
      buffs  |-> CoerceBuffs(Get(data, "buffs", EmptyDict)) ]

\* What read_json is handed: a pathlib.Path, as the functions of paths
\* return, or a str, as a file dialog returns; file is what the named file
\* holds, Absent for a file that is missing or holds no JSON.
PathTo(file) == [type |-> "Path", file |-> file]

StrPath(file) == [type |-> "str", file |-> file]

\* A read_json that answers a failed read with an empty object.
read_json_or_empty(path) ==
    IF path.type # "Path" \/ path.file = Absent
    THEN <<TRUE, [kind |-> "dict", v |-> EmptyDict, items |-> <<>>]>>
    ELSE <<TRUE, path.file>>

\* read_json(path) -> (ok, data): path.open raises for a str, which has no
\* open, and for a missing file; json.load raises for invalid JSON; every
\* exception is answered with (False, None).
read_json(path) ==
    IF path.type # "Path" \/ path.file = Absent
    THEN <<FALSE, NoneValue>>
    ELSE <<TRUE, path.file>>

\* ok and isinstance(data, dict) for what read_json returned.
ReadsDict(path) ==
    LET read == read_json(path)
    IN  read[1] /\ read[2].kind = "dict"

\* AppState._load_profile(): the user's profile, else the default, else {}.
_load_profile(user_file, default_file) ==
    IF ReadsDict(PathTo(user_file)) THEN read_json(PathTo(user_file))[2].v
    ELSE IF ReadsDict(PathTo(default_file)) THEN read_json(PathTo(default_file))[2].v
    ELSE EmptyDict

\* A replace that also takes the keys of updates the dataclass lacks.
ReplaceWithAnyKey(current, updates) ==
    [f \in (DOMAIN current) \cup (DOMAIN updates) |->
        IF f \in DOMAIN updates THEN updates[f] ELSE current[f]]

\* replace(current, **{k: updates[k] for k in updates if hasattr(current, k)}).
Replace(current, updates) ==
    [f \in DOMAIN current |-> IF f \in DOMAIN updates THEN updates[f] ELSE current[f]]

\* The loop of set_buffs: the known keys of updates take their new value.
ReplaceBuffs(current, updates) == Replace(current, updates)

\* QSpinBox.setValue(v) on a spin box of range lo..hi.
SetValue(lo, hi, v) == IF v < lo THEN lo ELSE IF v > hi THEN hi ELSE v

SPIN_JOB_MIN == 1
SPIN_JOB_MAX == 70
SPIN_BASE_MIN == 101
SPIN_BASE_MAX == 175
SPIN_PR_MIN == 0
SPIN_PR_MAX == 10
SPIN_CPF_MIN == 0
SPIN_CPF_MAX == 5
SPIN_ADV_MIN == 1
SPIN_ADV_MAX == 10

\* A signal as it reaches the slots connected to it.
Signal(name, payload) == [signal |-> name, payload |-> payload]

(***************************************************************************)
(* AppState: the base-prices snapshot                                      *)
(***************************************************************************)

\* The keys of the cleaned blob in the order of the dict: str(k) of every
\* item with a numeric value, at the place of its first occurrence.
RECURSIVE CleanKeys(_, _, _)
CleanKeys(items, k, acc) ==
    IF k > Len(items) THEN acc
    ELSE LET key == KeyToStr(items[k][1])
         IN  IF /\ items[k][2].kind \in {"int", "float"}
                /\ \A j \in 1..Len(acc) : acc[j] # key
             THEN CleanKeys(items, k + 1, Append(acc, key))
             ELSE CleanKeys(items, k + 1, acc)

\* The sort key (name.casefold(), item_id) of the price rows: r is not after q.
PriceRowNotAfter(r, q) ==
    \/ StrLess(casefold(r.name), casefold(q.name))
    \/ casefold(r.name) = casefold(q.name) /\ r.item_id <= q.item_id

\* list.sort is stable: every row is placed behind the rows that are not
\* after it, from the k-th row on.
RECURSIVE SortPriceRows(_, _, _)
SortPriceRows(rows, k, acc) ==
    IF k > Len(rows) THEN acc
    ELSE LET n == Cardinality({j \in 1..Len(acc) : PriceRowNotAfter(acc[j], rows[k])})
         IN  SortPriceRows(rows, k + 1,
                           SubSeq(acc, 1, n) \o <<rows[k]>> \o SubSeq(acc, n + 1, Len(acc)))

\* The loop of _compute_base_prices_snapshot from the k-th key of the blob
\* on: a key int() rejects is skipped, every other key appends a row and
\* writes by_id[int(key)].
RECURSIVE PriceEntries(_, _, _, _)
PriceEntries(keys, blob, k, acc) ==
    IF k > Len(keys) THEN acc
    ELSE LET iid == ParseInt(keys[k])
         IN  IF iid.err # "none" THEN PriceEntries(keys, blob, k + 1, acc)
             ELSE LET found == id_to_name(iid.val)
                      name == IF found = NoneValue THEN CostPlaceholder(iid.val)
                              ELSE found.s
                      price == blob[keys[k]]
                  IN  PriceEntries(keys, blob, k + 1,
                          [ rows  |-> Append(acc.rows,
                                             [item_id |-> iid.val, name |-> name,
                                              price |-> price]),
                            by_id |-> Put(acc.by_id, iid.val, price) ])

\* AppState._compute_base_prices_snapshot(blob, source), the blob given by
\* its keys in order and its mapping.
_compute_base_prices_snapshot(keys, blob, source) ==
    LET entries == PriceEntries(keys, blob, 1, [rows |-> <<>>, by_id |-> EmptyDict])
    IN  [ rows   |-> SortPriceRows(entries.rows, 1, <<>>),
          by_id  |-> entries.by_id,
          count  |-> Len(entries.rows),
          source |-> source ]

\* A publish that emits the signal before it replaces the cache.
CacheBeforeReplace(before, blob) == before

\* What load_prices_blob() returns to a slot of base_prices_changed: the
\* cache is replaced before the signal is emitted.
CacheAtEmit(before, blob) == blob

\* The price documents a file holds: unreadable (Absent), a JSON list, or a
\* JSON object given by its items in order.
JsonList == [kind |-> "list"]

JsonObject(items) == [kind |-> "dict", items |-> items]

\* json.dump of a cleaned blob: the items of the object written.
DumpPrices(keys, blob) ==
    JsonObject([k \in 1..Len(keys) |-> <<StrValue(keys[k]), IntValue(blob[keys[k]])>>])

\* The clean blob _refresh_base_prices_from_disk_and_publish publishes: the
\* user's prices if the file holds an object, else the default's, else {}.
PricesOnDisk(user_file, default_file) ==
    IF ReadsDict(PathTo(user_file))
    THEN [items |-> read_json(PathTo(user_file))[2].items, source |-> "user"]
    ELSE IF ReadsDict(PathTo(default_file))
         THEN [items |-> read_json(PathTo(default_file))[2].items, source |-> "default"]
         ELSE [items |-> <<>>, source |-> "default"]

\* AppState.__init__, the prices: the cache and the snapshot of the blob on
\* disk (no slot is connected yet).
InitPrices ==
    LET disk == PricesOnDisk(user_prices_file, prices_default_file)
        clean == CleanPrices(disk.items, 1, EmptyDict)
    IN  /\ _prices_cache = clean
        /\ _base_prices_snapshot =
               _compute_base_prices_snapshot(CleanKeys(disk.items, 1, <<>>), clean,
                                             disk.source)

\* AppState.__init__, the character: the four groups of the profile on disk.
InitCharacter ==
    LET prof == ProfileOf(_load_profile(user_profile_file, profile_default_file))
    IN  /\ _stats = prof.stats
        /\ _levels = prof.levels
        /\ _skills = prof.skills
        /\ _buffs = prof.buffs

\* PharmacySpecialPage._apply_state_to_spins(): every spin box takes the
\* value of the state, brought into its range, and reports no change.
_apply_state_to_spins ==
    /\ spin_job = SetValue(SPIN_JOB_MIN, SPIN_JOB_MAX, _levels.job_level)
    /\ spin_base = SetValue(SPIN_BASE_MIN, SPIN_BASE_MAX, _levels.base_level)
    /\ spin_pr = SetValue(SPIN_PR_MIN, SPIN_PR_MAX, _skills.potion_research)
    /\ spin_cpf = SetValue(SPIN_CPF_MIN, SPIN_CPF_MAX, _skills.chemical_protection_full)
    /\ spin_adv = SetValue(SPIN_ADV_MIN, SPIN_ADV_MAX, _skills.advanced_pharmacy)

\* The slots of levels_changed and skills_changed that keep the spin boxes
\* of the page: setValue under blocked signals.
_on_levels_changed(levels) ==
    /\ spin_job' = SetValue(SPIN_JOB_MIN, SPIN_JOB_MAX, levels.job_level)
    /\ spin_base' = SetValue(SPIN_BASE_MIN, SPIN_BASE_MAX, levels.base_level)

_on_skills_changed(skills) ==
    /\ spin_pr' = SetValue(SPIN_PR_MIN, SPIN_PR_MAX, skills.potion_research)
    /\ spin_cpf' = SetValue(SPIN_CPF_MIN, SPIN_CPF_MAX, skills.chemical_protection_full)
    /\ spin_adv' = SetValue(SPIN_ADV_MIN, SPIN_ADV_MAX, skills.advanced_pharmacy)

\* PharmacySpecialPage._schedule_recalc(): QTimer.start() on the single-shot
\* timer starts it, or restarts it when it is running.
_schedule_recalc == _recalc_timer' = TRUE

\* The record of a call on AppState: what was called and what it returned
\* or raised, and for a setter also the updates it was handed.
ApiCall(op, ret) == [op |-> op, ret |-> ret]

SetterCall(op, updates) == [op |-> op, updates |-> updates, ret |-> Returned(NoneValue)]

\* The values of the variables a specification does not use.
IdleEngine ==
    /\ inp = Scenario2
    /\ draw = [r1 |-> R1_MIN, r2 |-> R2_MIN]
    /\ sp_ret = Uncalled
    /\ outcomes = Uncalled

IdleStats ==
    /\ bk_results = <<>>
    /\ bk_difficulty = 0
    /\ bk_ret = Uncalled

IdleRules ==
    /\ doc = [kind |-> "dict", v |-> EmptyDict]
    /\ rules_ret = Uncalled

NoCall == [op |-> "none"]

IdleQueries ==
    /\ call = NoCall
    /\ call_ret = Uncalled

IdleRecipe ==
    /\ recipe_field = StrValue(<<>>)
    /\ recipe_ret = Uncalled

\* The application with no file on disk: the default character, no price,
\* no summary computed and nothing called.
IdleApp ==
    /\ user_prices_file = Absent
    /\ prices_default_file = Absent
    /\ user_profile_file = Absent
    /\ profile_default_file = Absent
    /\ InitPrices
    /\ InitCharacter
    /\ _apply_state_to_spins
    /\ _pharmacy_special_snapshot = NoneValue
    /\ cost_rows = _recompute(NoneValue, _prices_cache)
    /\ calc_ret = Uncalled
    /\ _recalc_timer = FALSE
    /\ emitted = <<>>
    /\ api_call = NoCall

(***************************************************************************)
(* SpecFormula: one call of special_pharmacy                               *)
(***************************************************************************)
InitFormula ==
    /\ inp \in CharacterInputs
    /\ draw \in Draws
    /\ sp_ret = Uncalled
    /\ outcomes = Uncalled
    /\ IdleStats
    /\ IdleRules
    /\ IdleQueries
    /\ IdleApp
    /\ IdleRecipe

Evaluate ==
    /\ sp_ret = Uncalled
    /\ sp_ret' = special_pharmacy(inp, draw.r1, draw.r2)
    /\ UNCHANGED <<inp, draw, outcomes, statsVars, rulesVars, queryVars, recipeVars, appVars>>

NextFormula == Evaluate

SpecFormula == InitFormula /\ [][NextFormula]_vars

(***************************************************************************)
(* SpecEnumerate: one call of enumerate_special_pharmacy_results           *)
(***************************************************************************)
InitEnumerate ==
    /\ inp \in CharacterInputs
    /\ draw = [r1 |-> R1_MIN, r2 |-> R2_MIN]
    /\ sp_ret = Uncalled
    /\ outcomes = Uncalled
    /\ IdleStats
    /\ IdleRules
    /\ IdleQueries
    /\ IdleApp
    /\ IdleRecipe

Enumerate ==
    /\ outcomes = Uncalled
    /\ outcomes' = enumerate_special_pharmacy_results(inp)
    /\ UNCHANGED <<inp, draw, sp_ret, statsVars, rulesVars, queryVars, recipeVars, appVars>>

NextEnumerate == Enumerate

SpecEnumerate == InitEnumerate /\ [][NextEnumerate]_vars

(***************************************************************************)
(* SpecStats: one call of pharmacy_special_probability_by_ranges           *)
(***************************************************************************)
InitStats ==
    /\ IdleEngine
    /\ bk_results \in OutcomeLists
    /\ bk_difficulty \in Difficulties
    /\ bk_ret = Uncalled
    /\ IdleRules
    /\ IdleQueries
    /\ IdleApp
    /\ IdleRecipe

Bucketize ==
    /\ bk_ret = Uncalled
    /\ bk_ret' = pharmacy_special_probability_by_ranges(bk_results, bk_difficulty)
    /\ UNCHANGED <<engineVars, bk_results, bk_difficulty, rulesVars, queryVars, recipeVars, appVars>>

NextStats == Bucketize

SpecStats == InitStats /\ [][NextStats]_vars

(***************************************************************************)
(* SpecRules: one call of Rules.from_dict                                  *)
(***************************************************************************)
InitRules ==
    /\ IdleEngine
    /\ IdleStats
    /\ IdleQueries
    /\ IdleApp
    /\ IdleRecipe
    /\ doc \in Documents
    /\ rules_ret = Uncalled

FromDict ==
    /\ rules_ret = Uncalled
    /\ rules_ret' = from_dict(doc)
    /\ UNCHANGED <<engineVars, statsVars, doc, queryVars, recipeVars, appVars>>

NextRules == FromDict

SpecRules == InitRules /\ [][NextRules]_vars

(***************************************************************************)
(* SpecQueries: a Rules instance is loaded and then queried once           *)
(***************************************************************************)
InitQueries ==
    /\ IdleEngine
    /\ IdleStats
    /\ doc \in RulesDocuments
    /\ rules_ret = Uncalled
    /\ IdleQueries
    /\ IdleApp
    /\ IdleRecipe

Loaded == rules_ret # Uncalled /\ rules_ret.err = "none" /\ call = NoCall

BaseDifficultyByLevel ==
    /\ Loaded
    /\ \E level \in QueryLevels :
          /\ call' = [op |-> "base_difficulty_by_level", level |-> level]
          /\ call_ret' = base_difficulty_by_level(rules_ret.val, level)
    /\ UNCHANGED <<engineVars, statsVars, rulesVars, recipeVars, appVars>>

BaseDifficultyByItemId ==
    /\ Loaded
    /\ \E item_id \in QueryItemIds :
          /\ call' = [op |-> "base_difficulty_by_item_id", item_id |-> item_id]
          /\ call_ret' = base_difficulty_by_item_id(rules_ret.val, item_id)
    /\ UNCHANGED <<engineVars, statsVars, rulesVars, recipeVars, appVars>>

ItemDifficulty ==
    /\ Loaded
    /\ \E item_id \in QueryItemIds, level \in QueryLevels :
          /\ call' = [op |-> "item_difficulty", item_id |-> item_id, level |-> level]
          /\ call_ret' = item_difficulty(rules_ret.val, item_id, level)
    /\ UNCHANGED <<engineVars, statsVars, rulesVars, recipeVars, appVars>>

PotionCap ==
    /\ Loaded
    /\ \E level \in QueryLevels, fallback \in Fallbacks :
          /\ call' = [op |-> "potion_cap", level |-> level, fallback |-> fallback]
          /\ call_ret' = potion_cap(rules_ret.val, level, fallback)
    /\ UNCHANGED <<engineVars, statsVars, rulesVars, recipeVars, appVars>>

NextQueries ==
    \/ FromDict
    \/ BaseDifficultyByLevel
    \/ BaseDifficultyByItemId
    \/ ItemDifficulty
    \/ PotionCap

SpecQueries == InitQueries /\ [][NextQueries]_vars

(***************************************************************************)
(* SpecRecipe: one call of parse_recipe                                    *)
(***************************************************************************)
InitRecipe ==
    /\ IdleEngine
    /\ IdleStats
    /\ IdleRules
    /\ IdleQueries
    /\ IdleApp
    /\ recipe_field \in RecipeFields
    /\ recipe_ret = Uncalled

ParseRecipe ==
    /\ recipe_ret = Uncalled
    /\ recipe_ret' = parse_recipe(recipe_field)
    /\ UNCHANGED <<engineVars, statsVars, rulesVars, queryVars, recipe_field, appVars>>

NextRecipe == ParseRecipe

SpecRecipe == InitRecipe /\ [][NextRecipe]_vars

(***************************************************************************)
(* SpecCost: the application publishes prices and pharmacy snapshots, and  *)
(* the production-cost page recomputes its rows on every publish           *)
(***************************************************************************)

\* AppState.__init__ finds no file on disk, no snapshot of the pharmacy
\* page exists, and the cost page paints its rows when it is built.
InitCost ==
    /\ IdleEngine
    /\ IdleStats
    /\ IdleRules
    /\ IdleQueries
    /\ IdleRecipe
    /\ IdleApp

\* AppState._publish_base_prices_snapshot(blob, source): the cache is
\* replaced, the snapshot computed and stored, then base_prices_changed
\* runs CustoProducaoPage._recompute(self.state.pharmacy_special()).
_publish_base_prices_snapshot(keys, blob, source) ==
    /\ _prices_cache' = blob
    /\ _base_prices_snapshot' = _compute_base_prices_snapshot(keys, blob, source)
    /\ emitted' = <<Signal("base_prices_changed", _base_prices_snapshot')>>
    /\ cost_rows' = _recompute(_pharmacy_special_snapshot, CacheAtEmit(_prices_cache, blob))

\* AppState.set_prices_live(blob).
SetPricesLive ==
    /\ \E blob \in PriceBlobs :
          /\ _publish_base_prices_snapshot(CleanKeys(blob, 1, <<>>),
                                           CleanPrices(blob, 1, EmptyDict), "live")
          /\ api_call' = ApiCall("set_prices_live", Returned(NoneValue))
    /\ UNCHANGED <<libraryVars, _pharmacy_special_snapshot, calc_ret, fileVars,
                   characterVars, spinVars, _recalc_timer>>

\* calculate reads its inputs, the rules and the catalog only.  Its
\* enumeration for each input of the model, evaluated once, and the
\* snapshot it builds from it.
EnumeratedResults == [i \in CalcInputs |-> enumerate_special_pharmacy_results(i).val]

CalculatedSnapshot ==
    [i \in CalcInputs, adv_level \in AdvLevels |-> Summarize(EnumeratedResults[i], adv_level)]

\* AppState.set_pharmacy_special_snapshot(snap): the snapshot is stored,
\* then pharmacy_special_changed runs CustoProducaoPage._recompute(snap).
set_pharmacy_special_snapshot(snap) ==
    /\ _pharmacy_special_snapshot' = snap
    /\ emitted' = <<Signal("pharmacy_special_changed", snap)>>
    /\ cost_rows' = _recompute(snap, _prices_cache)
    /\ api_call' = [op |-> "set_pharmacy_special_snapshot"]

\* PharmacySpecialPage.calculate() for effective stats and spin values i
\* and the advanced-pharmacy level the user has set the spin box to.
Calculate ==
    /\ \E i \in CalcInputs, adv_level \in AdvLevels :
          /\ spin_adv' = adv_level
          /\ set_pharmacy_special_snapshot(CalculatedSnapshot[i, adv_level])
    /\ calc_ret' = Returned(NoneValue)
    /\ UNCHANGED <<libraryVars, priceVars, fileVars, characterVars,
                   spin_job, spin_base, spin_pr, spin_cpf, _recalc_timer>>

\* Values of a stat that are no number: set_stats stores whatever it is
\* handed.
NonNumericStats == {NoneValue, StrValue(<<"9", "0">>)}

\* int_stat + des_stat / 2.0 + ... for a stat that is None or a string.
AddToNumber(x) == IF x.kind \in {"int", "float"} THEN Returned(x) ELSE Raised("TypeError")

\* PharmacySpecialPage.calculate() with a stat that is no number: the
\* enumeration raises, the handler of line 462 logs it, and nothing is
\* published.
CalculateRaises ==
    /\ \E int_stat \in NonNumericStats : calc_ret' = Raised(AddToNumber(int_stat).err)
    /\ emitted' = <<>>
    /\ api_call' = NoCall
    /\ UNCHANGED <<libraryVars, priceVars, _pharmacy_special_snapshot, cost_rows,
                   fileVars, characterVars, spinVars, _recalc_timer>>

NextCost == SetPricesLive \/ Calculate \/ CalculateRaises

SpecCost == InitCost /\ [][NextCost]_vars

(***************************************************************************)
(* SpecPrices: the price operations of AppState                            *)
(***************************************************************************)

\* What the prices files hold: nothing readable, a JSON list, or an object
\* with a price for material 713 and a number under a key that is no id.
PriceFiles ==
    { Absent, JsonList,
      JsonObject(<< <<StrValue(<<"7", "1", "3">>), IntValue(7)>>,
                    <<StrValue(<<"a", "b">>), IntValue(1)>> >>) }

\* AppState.__init__ with the character of no profile file and the prices
\* on disk; no page has computed a snapshot.
InitPricesSpec ==
    /\ IdleEngine
    /\ IdleStats
    /\ IdleRules
    /\ IdleQueries
    /\ IdleRecipe
    /\ user_prices_file \in {Absent, JsonList}
    /\ prices_default_file \in PriceFiles
    /\ user_profile_file = Absent
    /\ profile_default_file = Absent
    /\ InitPrices
    /\ InitCharacter
    /\ _apply_state_to_spins
    /\ _pharmacy_special_snapshot = NoneValue
    /\ cost_rows = _recompute(NoneValue, _prices_cache)
    /\ calc_ret = Uncalled
    /\ _recalc_timer = FALSE
    /\ emitted = <<>>
    /\ api_call = NoCall

\* AppState.save_prices_blob(blob): the cleaned blob is written to the
\* user's file and published.
SavePricesBlob ==
    /\ \E blob \in PriceBlobs :
          LET keys == CleanKeys(blob, 1, <<>>)
              clean == CleanPrices(blob, 1, EmptyDict)
          IN  /\ user_prices_file' = DumpPrices(keys, clean)
              /\ _publish_base_prices_snapshot(keys, clean, "user")
    /\ api_call' = ApiCall("save_prices_blob", Returned("user_prices_json"))
    /\ UNCHANGED <<libraryVars, _pharmacy_special_snapshot, calc_ret,
                   prices_default_file, user_profile_file, profile_default_file,
                   characterVars, spinVars, _recalc_timer>>

\* AppState.reset_prices_to_default(): RuntimeError unless the default file
\* holds an object; else its cleaned blob is written to the user's file and
\* published.
ResetPricesToDefault ==
    /\ IF ~ReadsDict(PathTo(prices_default_file))
       THEN /\ api_call' = ApiCall("reset_prices_to_default", Raised("RuntimeError"))
            /\ emitted' = <<>>
            /\ UNCHANGED <<priceVars, cost_rows, user_prices_file>>
       ELSE LET data == read_json(PathTo(prices_default_file))[2]
                keys == CleanKeys(data.items, 1, <<>>)
                clean == CleanPrices(data.items, 1, EmptyDict)
            IN  /\ user_prices_file' = DumpPrices(keys, clean)
                /\ _publish_base_prices_snapshot(keys, clean, "default")
                /\ api_call' = ApiCall("reset_prices_to_default",
                                       Returned("user_prices_json"))
    /\ UNCHANGED <<libraryVars, _pharmacy_special_snapshot, calc_ret,
                   prices_default_file, user_profile_file, profile_default_file,
                   characterVars, spinVars, _recalc_timer>>

\* AppState.load_prices_blob(): a copy of the cache, which __init__ has
\* filled.
LoadPricesBlob ==
    /\ api_call' = ApiCall("load_prices_blob", Returned(_prices_cache))
    /\ emitted' = <<>>
    /\ UNCHANGED <<libraryVars, priceVars, _pharmacy_special_snapshot, cost_rows,
                   calc_ret, fileVars, characterVars, spinVars, _recalc_timer>>

NextPrices == SetPricesLive \/ SavePricesBlob \/ ResetPricesToDefault \/ LoadPricesBlob

SpecPrices == InitPricesSpec /\ [][NextPrices]_vars

(***************************************************************************)
(* SpecProfile: the character of AppState is changed, the pharmacy page    *)
(* debounces the changes and recalculates                                  *)
(***************************************************************************)

\* What a profile file holds: nothing readable, a JSON list, or the profile
\* of a character with INT 90 and Gloria on.
ProfileFiles ==
    { Absent, JsonList,
      [ kind |-> "dict",
        v |-> [ stats |-> [int_stat |-> 90], buffs |-> [gloria |-> TRUE] ] ] }

\* The updates the setters are called with: one field set to either of two
\* values, together with a key the group does not have, and no update.
StatsUpdates ==
    { EmptyDict, [int_stat |-> 90], [int_stat |-> 100, luk_stat |-> 1] }

LevelsUpdates ==
    { EmptyDict, [base_level |-> 99], [base_level |-> 120, guild_level |-> 1] }

SkillsUpdates ==
    { EmptyDict, [pharmacy |-> 9], [pharmacy |-> 10, alchemy |-> 1] }

BuffsUpdates ==
    { EmptyDict, [gloria |-> TRUE], [gloria |-> FALSE, kyrie |-> TRUE] }

\* The arguments calculate hands to the enumeration: the effective stats of
\* the state and the values of the spin boxes.
PageInputsOf(eff_stats, job_level, base_level, pr_level, cpf_level) ==
    [ int_stat |-> eff_stats.int_stat, des_stat |-> eff_stats.des_stat,
      sor_stat |-> eff_stats.sor_stat, job_level |-> job_level, base_level |-> base_level,
      potion_research_level |-> pr_level, chemical_protection_level |-> cpf_level ]

\* The arguments the characters of this specification give rise to, on the
\* page (base level 101 or 120) and in the state (99 or 120), and the
\* snapshot calculate builds for each, evaluated once.
PageInputs ==
    { PageInputsOf([int_stat |-> a, des_stat |-> CharacterStats.des_stat, sor_stat |-> b],
                   CharacterLevels.job_level, c,
                   Skills.potion_research, Skills.chemical_protection_full) :
        a \in {90, CharacterStats.int_stat},
        b \in {CharacterStats.sor_stat, CharacterStats.sor_stat + BUFFS[1].add.sor_stat},
        c \in {99, SPIN_BASE_MIN, CharacterLevels.base_level} }

PageResults == [i \in PageInputs |-> enumerate_special_pharmacy_results(i).val]

PageSnapshot ==
    [i \in PageInputs |-> Summarize(PageResults[i], Skills.advanced_pharmacy)]

\* PharmacySpecialPage.calculate() on the state and the spin boxes as they
\* are: the snapshot is built and published.
calculate_and_publish ==
    LET i == PageInputsOf(apply_buffs(_stats, _buffs), spin_job, spin_base, spin_pr,
                          spin_cpf)
    IN  /\ set_pharmacy_special_snapshot(PageSnapshot[i])
        /\ calc_ret' = Returned(NoneValue)

\* The application while the pharmacy page is being built: the character
\* of the profile on disk, the spin boxes showing it and the slots
\* connected; the constructor has yet to make its call of calculate.
InitProfile ==
    /\ IdleEngine
    /\ IdleStats
    /\ IdleRules
    /\ IdleQueries
    /\ IdleRecipe
    /\ user_prices_file = Absent
    /\ user_profile_file = Absent
    /\ \/ profile_default_file = JsonList /\ prices_default_file = Absent
       \/ /\ profile_default_file \in ProfileFiles \ {Absent, JsonList}
          /\ prices_default_file \in PriceFiles \ {Absent, JsonList}
    /\ InitPrices
    /\ InitCharacter
    /\ _apply_state_to_spins
    /\ _pharmacy_special_snapshot = NoneValue
    /\ cost_rows = _recompute(NoneValue, _prices_cache)
    /\ calc_ret = Uncalled
    /\ _recalc_timer = FALSE
    /\ emitted = <<>>
    /\ api_call = NoCall

\* The pharmacy page is built once its constructor has called calculate;
\* until then nobody calls AppState through the window.
PageBuilt == calc_ret # Uncalled

\* AppState.set_stats(updates), and the slots of stats_changed.
SetStats ==
    /\ PageBuilt
    /\ \E updates \in StatsUpdates :
          LET new == Replace(_stats, updates)
          IN  /\ api_call' = SetterCall("set_stats", updates)
              /\ IF new # _stats
                 THEN /\ _stats' = new
                      /\ emitted' = <<Signal("stats_changed", new)>>
                      /\ _schedule_recalc
                 ELSE /\ emitted' = <<>>
                      /\ UNCHANGED <<_stats, _recalc_timer>>
    /\ UNCHANGED <<libraryVars, priceVars, _pharmacy_special_snapshot, cost_rows, calc_ret,
                   fileVars, _levels, _skills, _buffs, spinVars>>

\* AppState.set_levels(updates), and the slots of levels_changed.
SetLevels ==
    /\ PageBuilt
    /\ \E updates \in LevelsUpdates :
          LET new == Replace(_levels, updates)
          IN  /\ api_call' = SetterCall("set_levels", updates)
              /\ IF new # _levels
                 THEN /\ _levels' = new
                      /\ emitted' = <<Signal("levels_changed", new)>>
                      /\ _on_levels_changed(new)
                      /\ _schedule_recalc
                 ELSE /\ emitted' = <<>>
                      /\ UNCHANGED <<_levels, spin_job, spin_base, _recalc_timer>>
    /\ UNCHANGED <<libraryVars, priceVars, _pharmacy_special_snapshot, cost_rows, calc_ret,
                   fileVars, _stats, _skills, _buffs, spin_pr, spin_cpf, spin_adv>>

\* AppState.set_skills(updates), and the slots of skills_changed.
SetSkills ==
    /\ PageBuilt
    /\ \E updates \in SkillsUpdates :
          LET new == Replace(_skills, updates)
          IN  /\ api_call' = SetterCall("set_skills", updates)
              /\ IF new # _skills
                 THEN /\ _skills' = new
                      /\ emitted' = <<Signal("skills_changed", new)>>
                      /\ _on_skills_changed(new)
                      /\ _schedule_recalc
                 ELSE /\ emitted' = <<>>
                      /\ UNCHANGED <<_skills, spin_pr, spin_cpf, spin_adv, _recalc_timer>>
    /\ UNCHANGED <<libraryVars, priceVars, _pharmacy_special_snapshot, cost_rows, calc_ret,
                   fileVars, _stats, _levels, _buffs, spin_job, spin_base>>

\* AppState.set_buffs(updates), and the slots of buffs_changed.
SetBuffs ==
    /\ PageBuilt
    /\ \E updates \in BuffsUpdates :
          LET new == ReplaceBuffs(_buffs, updates)
          IN  /\ api_call' = SetterCall("set_buffs", updates)
              /\ IF new # _buffs
                 THEN /\ _buffs' = new
                      /\ emitted' = <<Signal("buffs_changed", new)>>
                      /\ _schedule_recalc
                 ELSE /\ emitted' = <<>>
                      /\ UNCHANGED <<_buffs, _recalc_timer>>
    /\ UNCHANGED <<libraryVars, priceVars, _pharmacy_special_snapshot, cost_rows, calc_ret,
                   fileVars, _stats, _levels, _skills, spinVars>>

\* The four groups are replaced by those of the profile data and the four
\* signals emitted, whether or not anything changed; their slots set the
\* spin boxes and start the timer.
ReplaceProfile(data) ==
    LET prof == ProfileOf(data)
    IN  /\ _stats' = prof.stats
        /\ _levels' = prof.levels
        /\ _skills' = prof.skills
        /\ _buffs' = prof.buffs
        /\ emitted' = << Signal("stats_changed", prof.stats),
                         Signal("levels_changed", prof.levels),
                         Signal("skills_changed", prof.skills),
                         Signal("buffs_changed", prof.buffs) >>
        /\ _on_levels_changed(prof.levels)
        /\ _on_skills_changed(prof.skills)
        /\ _schedule_recalc

\* The call of import_profile_from_file with file_path, and what it did.
ImportCall(file_path, ret) ==
    [op |-> "import_profile_from_file", file_path |-> file_path, ret |-> ret]

\* AppState.import_profile_from_file(file_path): RuntimeError unless
\* read_json reads an object from file_path. The main window calls it with
\* the str of the file dialog.
ImportProfileFromFile ==
    /\ PageBuilt
    /\ \E file \in ProfileFiles : \E file_path \in {PathTo(file), StrPath(file)} :
          IF ~ReadsDict(file_path)
          THEN /\ api_call' = ImportCall(file_path, Raised("RuntimeError"))
               /\ emitted' = <<>>
               /\ UNCHANGED <<characterVars, spinVars, _recalc_timer>>
          ELSE /\ ReplaceProfile(read_json(file_path)[2].v)
               /\ api_call' = ImportCall(file_path, Returned(NoneValue))
    /\ UNCHANGED <<libraryVars, priceVars, _pharmacy_special_snapshot, cost_rows, calc_ret,
                   fileVars>>

\* AppState.reset_profile_to_default(): RuntimeError unless the default
\* file holds an object; else it is written to the user's file and
\* replaces the character.
ResetProfileToDefault ==
    /\ PageBuilt
    /\ IF ~ReadsDict(PathTo(profile_default_file))
       THEN /\ api_call' = ApiCall("reset_profile_to_default", Raised("RuntimeError"))
            /\ emitted' = <<>>
            /\ UNCHANGED <<characterVars, spinVars, _recalc_timer, user_profile_file>>
       ELSE /\ user_profile_file' = read_json(PathTo(profile_default_file))[2]
            /\ ReplaceProfile(read_json(PathTo(profile_default_file))[2].v)
            /\ api_call' = ApiCall("reset_profile_to_default",
                                   Returned("user_profile_json"))
    /\ UNCHANGED <<libraryVars, priceVars, _pharmacy_special_snapshot, cost_rows, calc_ret,
                   user_prices_file, prices_default_file, profile_default_file>>

\* PharmacySpecialPage.calculate() as its two callers run it: the last
\* statement of the constructor, and the timer when it runs out, its
\* interval after the last start (a single-shot timer stops as it fires).
RunCalculate ==
    /\ _recalc_timer \/ ~PageBuilt
    /\ _recalc_timer' = FALSE
    /\ calculate_and_publish
    /\ UNCHANGED <<libraryVars, priceVars, fileVars, characterVars, spinVars>>

NextProfile ==
    \/ SetStats
    \/ SetLevels
    \/ SetSkills
    \/ SetBuffs
    \/ ImportProfileFromFile
    \/ ResetProfileToDefault
    \/ ResetPricesToDefault
    \/ RunCalculate

SpecProfile == InitProfile /\ [][NextProfile]_vars

(***************************************************************************)
(* Properties of the formula evaluator and of the enumerator               *)
(***************************************************************************)

\* C1: enumerate_special_pharmacy_results does not raise and returns exactly
\* 847 integers; the element at (0-based) index (r1-30)*7 + (r2-4) is
\* special_pharmacy(..., r1, r2), for every r1 in 30..150 and r2 in 4..10.
\* (Sequences are 1-based here, hence the + 1.)
C1_EnumerateAllDraws ==
    outcomes # Uncalled =>
        /\ outcomes.err = "none"
        /\ Len(outcomes.val) = 847
        /\ \A k \in 1..Len(outcomes.val) : outcomes.val[k] \in Int
        /\ \A r1 \in 30..150 : \A r2 \in 4..10 :
              outcomes.val[(r1 - 30) * 7 + (r2 - 4) + 1]
                  = special_pharmacy(inp, r1, r2).val

\* The enumeration of scenario 2 has been returned: it starts at 420
\* (r1 = 30, r2 = 4), continues with r2 = 5 and ends at r1 = 150, r2 = 10.
C1_Witness ==
    /\ inp = Scenario2
    /\ outcomes.err = "none"
    /\ outcomes.val[1] = 420
    /\ outcomes.val[2] = 425
    /\ outcomes.val[847] = 570

\* Twice the sum of claim C2, written from the claim.
C2_TwiceSum ==
    2 * ( inp.int_stat + inp.sor_stat + inp.job_level + draw.r1
          + (inp.base_level - 100) + inp.potion_research_level * 5
          + inp.chemical_protection_level * draw.r2 )
    + inp.des_stat

\* C2: for 30 <= r1 <= 150 and 4 <= r2 <= 10 special_pharmacy returns the
\* truncation toward zero of int + dex/2 + luck + job + r1 + (base - 100)
\* + research*5 + protection*r2 with dex/2 a true division: the integer v
\* of the sign of the sum x with |v| <= |x| < |v| + 1.  The inputs of
\* scenario 2 with r1 = 30 and r2 = 4 give 420.
C2_TruncatedSum ==
    ( /\ sp_ret # Uncalled
      /\ 30 <= draw.r1 /\ draw.r1 <= 150
      /\ 4 <= draw.r2 /\ draw.r2 <= 10 ) =>
        /\ sp_ret.err = "none"
        /\ sp_ret.val \in Int
        /\ C2_TwiceSum >= 0 =>
              (2 * sp_ret.val <= C2_TwiceSum /\ C2_TwiceSum < 2 * sp_ret.val + 2)
        /\ C2_TwiceSum <= 0 =>
              (2 * sp_ret.val - 2 < C2_TwiceSum /\ C2_TwiceSum <= 2 * sp_ret.val)
        /\ (inp = Scenario2 /\ draw.r1 = 30 /\ draw.r2 = 4) => sp_ret.val = 420

\* Scenario 2 has been evaluated and gave 420.
C2_Witness ==
    /\ inp = Scenario2
    /\ draw = [r1 |-> 30, r2 |-> 4]
    /\ sp_ret = Returned(420)

\* C3: with r1 outside [30,150] or r2 outside [4,10] special_pharmacy raises
\* ValueError and returns no value, whatever the other arguments are.
C3_OutOfRangeRaises ==
    ( /\ sp_ret # Uncalled
      /\ \/ draw.r1 < 30 \/ draw.r1 > 150
         \/ draw.r2 < 4  \/ draw.r2 > 10 ) =>
        /\ sp_ret.err = "ValueError"
        /\ DOMAIN sp_ret = {"err"}

\* A call with r1 = 29, just below the range, and r2 in range has raised.
C3_Witness ==
    /\ draw.r1 = 29
    /\ draw.r2 = 4
    /\ sp_ret = Raised("ValueError")

(***************************************************************************)
(* Properties of the bucketizer                                            *)
(***************************************************************************)
BucketCount(k) == bk_ret.val[k].count

BucketProb(k) == bk_ret.val[k].prob

\* C4: the five counts returned for MAX, MAX-3, MAX-4, MAX-5 and MAX-6 sum
\* to the length of the outcome list, for a list of any length (the empty
\* one included) and any difficulty.
C4_CountsSumToLength ==
    bk_ret # Uncalled =>
        /\ bk_ret.err = "none"
        /\ DOMAIN bk_ret.val = {"MAX", "MAX-3", "MAX-4", "MAX-5", "MAX-6"}
        /\ BucketCount("MAX") + BucketCount("MAX-3") + BucketCount("MAX-4")
             + BucketCount("MAX-5") + BucketCount("MAX-6") = Len(bk_results)

\* A list of three outcomes that fall in three different tiers (one of them
\* below the difficulty) has been bucketized.
C4_Witness ==
    /\ bk_results = <<100, 600, 300>>
    /\ bk_difficulty = 200
    /\ bk_ret.err = "none"
    /\ BucketCount("MAX-6") = 1
    /\ BucketCount("MAX") = 1
    /\ BucketCount("MAX-4") = 1

\* The number of outcomes of the bucketized list that satisfy P.
NumberOf(P(_)) == Cardinality({k \in 1..Len(bk_results) : P(bk_results[k])})

\* C5: each tier's count is the number of outcomes v with, for difficulty
\* d: MAX v >= d+400; MAX-3 d+300 <= v < d+400; MAX-4 d+100 <= v < d+300;
\* MAX-5 d <= v < d+100; MAX-6 v < d.
C5_TierBoundaries ==
    bk_ret # Uncalled =>
        LET d == bk_difficulty
            IsMax(v)  == v >= d + 400
            IsMax3(v) == d + 300 <= v /\ v < d + 400
            IsMax4(v) == d + 100 <= v /\ v < d + 300
            IsMax5(v) == d <= v /\ v < d + 100
            IsMax6(v) == v < d
        IN  /\ BucketCount("MAX")   = NumberOf(IsMax)
            /\ BucketCount("MAX-3") = NumberOf(IsMax3)
            /\ BucketCount("MAX-4") = NumberOf(IsMax4)
            /\ BucketCount("MAX-5") = NumberOf(IsMax5)
            /\ BucketCount("MAX-6") = NumberOf(IsMax6)
            /\ \A k \in 1..Len(bk_results) :
                  LET v == bk_results[k]
                  IN  Cardinality({t \in 1..5 :
                          \/ t = 1 /\ IsMax(v)
                          \/ t = 2 /\ IsMax3(v)
                          \/ t = 3 /\ IsMax4(v)
                          \/ t = 4 /\ IsMax5(v)
                          \/ t = 5 /\ IsMax6(v)}) = 1

\* Outcomes on a lower bound (d+100 = 300) and just under an upper bound
\* (d+400 - 1 = 599, d+100 - 1 = 299) have been bucketized.
C5_Witness ==
    /\ bk_results = <<299, 300, 599>>
    /\ bk_difficulty = 200
    /\ bk_ret.err = "none"
    /\ BucketCount("MAX-5") = 1
    /\ BucketCount("MAX-4") = 1
    /\ BucketCount("MAX-3") = 1

\* C6: for a non-empty outcome list each tier's probability is the tier's
\* count divided by the number of outcomes of the list, so that the five
\* probabilities sum to 1.
C6_ProbabilityOverInputLength ==
    (bk_ret # Uncalled /\ Len(bk_results) > 0) =>
        /\ \A k \in {"MAX", "MAX-3", "MAX-4", "MAX-5", "MAX-6"} :
              BucketProb(k).num * Len(bk_results) = BucketCount(k) * BucketProb(k).den
        /\ BucketProb("MAX").num + BucketProb("MAX-3").num + BucketProb("MAX-4").num
             + BucketProb("MAX-5").num + BucketProb("MAX-6").num
               = BucketProb("MAX").den

\* C7, as stated: scenario 3 with difficulty 200 counts MAX = 1, MAX-3 = 1
\* and MAX-4 = 1.
C7_Scenario3AsStated ==
    (bk_ret # Uncalled /\ bk_results = Scenario3 /\ bk_difficulty = 200) =>
        /\ BucketCount("MAX") = 1
        /\ BucketCount("MAX-3") = 1
        /\ BucketCount("MAX-4") = 1

\* C7, amended: scenario 3 with difficulty 200 counts MAX = 1 (600),
\* MAX-3 = 1 (500) and MAX-4 = 2 (300 and 400: 300 = 200 + 100 is on the
\* inclusive lower bound of MAX-4); the other two outcomes give MAX-5 = 1
\* (200) and MAX-6 = 1 (100).
C7_Scenario3 ==
    (bk_ret # Uncalled /\ bk_results = Scenario3 /\ bk_difficulty = 200) =>
        /\ BucketCount("MAX") = 1
        /\ BucketCount("MAX-3") = 1
        /\ BucketCount("MAX-4") = 2
        /\ BucketCount("MAX-5") = 1
        /\ BucketCount("MAX-6") = 1

\* Scenario 3 has been bucketized with difficulty 200.
C7_Witness ==
    /\ bk_results = Scenario3
    /\ bk_difficulty = 200
    /\ bk_ret.err = "none"
    /\ BucketCount("MAX") = 1

(***************************************************************************)
(* Properties of Rules.from_dict                                           *)
(***************************************************************************)
RequiredSections ==
    {"base_difficulty_by_level", "max_potions_by_level", "base_difficulty_by_item_id"}

\* The construction invariants of a Rules instance: three non-empty
\* mappings, no negative value, every level key in 0..10.
ConstructionInvariants(rules) ==
    /\ DOMAIN rules.diff_by_level # {}
    /\ DOMAIN rules.max_by_level # {}
    /\ DOMAIN rules.diff_by_item_id # {}
    /\ \A k \in DOMAIN rules.diff_by_level : rules.diff_by_level[k] >= 0
    /\ \A k \in DOMAIN rules.max_by_level : rules.max_by_level[k] >= 0
    /\ \A k \in DOMAIN rules.diff_by_item_id : rules.diff_by_item_id[k] >= 0
    /\ \A k \in DOMAIN rules.diff_by_level : 0 <= k /\ k <= 10
    /\ \A k \in DOMAIN rules.max_by_level : 0 <= k /\ k <= 10

\* C8: for any raw document from_dict either returns a Rules instance that
\* satisfies every construction invariant or raises InvalidRulesError; no
\* other exception leaves it.
C8_ValidRulesOrInvalidRulesError ==
    rules_ret # Uncalled =>
        \/ rules_ret.err = "InvalidRulesError"
        \/ rules_ret.err = "none" /\ ConstructionInvariants(rules_ret.val)

\* A required section is absent from the document or present as an empty dict.
AbsentOrEmpty(name) ==
    \/ name \notin DOMAIN doc.v
    \/ doc.v[name] = [kind |-> "dict", items |-> <<>>]

\* C9: from_dict raises InvalidRulesError whenever one of the three required
\* sections is absent from the document or present but empty, whatever the
\* other sections hold.
C9_MissingSectionRaisesInvalidRules ==
    ( /\ rules_ret # Uncalled
      /\ doc.kind = "dict"
      /\ \E name \in RequiredSections : AbsentOrEmpty(name) ) =>
        rules_ret.err = "InvalidRulesError"

\* A raw JSON value that is a negative number.
RawNegative(x) ==
    \/ x.kind = "int" /\ x.v < 0
    \/ x.kind = "float" /\ x.twice < 0

\* Some value of some section of the document is negative.
HasNegativeValue ==
    /\ doc.kind = "dict"
    /\ \E name \in RequiredSections \cap DOMAIN doc.v :
          /\ doc.v[name].kind = "dict"
          /\ \E k \in 1..Len(doc.v[name].items) : RawNegative(doc.v[name].items[k][2])

\* C10: from_dict raises InvalidRulesError whenever a value of one of the
\* three sections is negative, and every Rules instance it returns has only
\* non-negative values in its three mappings.
C10_NegativeValueRaisesInvalidRules ==
    rules_ret # Uncalled =>
        /\ HasNegativeValue => rules_ret.err = "InvalidRulesError"
        /\ rules_ret.err = "none" =>
              /\ \A k \in DOMAIN rules_ret.val.diff_by_level :
                    rules_ret.val.diff_by_level[k] >= 0
              /\ \A k \in DOMAIN rules_ret.val.max_by_level :
                    rules_ret.val.max_by_level[k] >= 0
              /\ \A k \in DOMAIN rules_ret.val.diff_by_item_id :
                    rules_ret.val.diff_by_item_id[k] >= 0

\* The two level-keyed sections of a document.
LevelSections == {"base_difficulty_by_level", "max_potions_by_level"}

\* Some key of a level-keyed section of the document is an integer outside
\* MIN_LEVEL..MAX_LEVEL.
HasLevelKeyOutOfRange ==
    /\ doc.kind = "dict"
    /\ \E name \in LevelSections \cap DOMAIN doc.v :
          /\ doc.v[name].kind = "dict"
          /\ \E k \in 1..Len(doc.v[name].items) :
                LET lvl == CoerceInt(doc.v[name].items[k][1])
                IN  lvl.err = "none" /\ (lvl.val < 0 \/ lvl.val > 10)

\* C11: from_dict raises InvalidRulesError whenever a level key of
\* base_difficulty_by_level or of max_potions_by_level lies outside 0..10,
\* and no Rules instance it returns has a level key outside 0..10 in either
\* mapping.
C11_LevelKeysInRange ==
    rules_ret # Uncalled =>
        /\ HasLevelKeyOutOfRange => rules_ret.err = "InvalidRulesError"
        /\ rules_ret.err = "none" =>
              /\ \A k \in DOMAIN rules_ret.val.diff_by_level : 0 <= k /\ k <= 10
              /\ \A k \in DOMAIN rules_ret.val.max_by_level : 0 <= k /\ k <= 10

\* The integer keys of the item section of the document.
ItemSectionKeys ==
    { CoerceInt(doc.v["base_difficulty_by_item_id"].items[k][1]).val :
        k \in 1..Len(doc.v["base_difficulty_by_item_id"].items) }

\* C12: the item_ids of every Rules instance from_dict returns is the key
\* set of base_difficulty_by_item_id in ascending order without duplicates,
\* whether or not the document has a key item_ids and whatever it holds.
C12_ItemIdsAreSortedKeys ==
    (rules_ret # Uncalled /\ rules_ret.err = "none") =>
        LET ids == rules_ret.val.item_ids
        IN  /\ {ids[k] : k \in 1..Len(ids)} = DOMAIN rules_ret.val.diff_by_item_id
            /\ {ids[k] : k \in 1..Len(ids)} = ItemSectionKeys
            /\ \A a, b \in 1..Len(ids) : a < b => ids[a] < ids[b]

\* A document whose item section lists 1002 before 1001 and whose item_ids
\* key holds other ids has been loaded: item_ids is <<1001, 1002>>.
C12_Witness ==
    /\ rules_ret.err = "none"
    /\ "item_ids" \in DOMAIN doc.v
    /\ doc.v["base_difficulty_by_item_id"].items[1][1] = StrValue(<<"1", "0", "0", "2">>)
    /\ rules_ret.val.item_ids = <<1001, 1002>>

(***************************************************************************)
(* Properties of the query helpers of Rules                                *)
(***************************************************************************)

\* The Rules instance the queries are made on.
self == rules_ret.val

\* C13: base_difficulty_by_level(level) returns the stored value when level
\* is a key of the level table and raises LevelOutOfRange for every other
\* level: below 0, above 10, and inside 0..10 but not in the table.
C13_LevelLookup ==
    call.op = "base_difficulty_by_level" =>
        /\ call.level \in DOMAIN self.diff_by_level =>
              call_ret = Returned(self.diff_by_level[call.level])
        /\ call.level \notin DOMAIN self.diff_by_level =>
              call_ret.err = "LevelOutOfRange" /\ DOMAIN call_ret = {"err"}

\* Level 5, inside 0..10 and absent from the table of the whole payload,
\* has been looked up and raised LevelOutOfRange.
C13_Witness ==
    /\ call = [op |-> "base_difficulty_by_level", level |-> 5]
    /\ DOMAIN self.diff_by_level = {0, 1, 10}
    /\ call_ret = Raised("LevelOutOfRange")

\* C14: base_difficulty_by_item_id(item_id) returns the stored value when
\* item_id is a key of the item table and raises UnknownItemId for every
\* other item id.
C14_ItemLookup ==
    call.op = "base_difficulty_by_item_id" =>
        /\ call.item_id \in DOMAIN self.diff_by_item_id =>
              call_ret = Returned(self.diff_by_item_id[call.item_id])
        /\ call.item_id \notin DOMAIN self.diff_by_item_id =>
              call_ret.err = "UnknownItemId" /\ DOMAIN call_ret = {"err"}

\* Item 9999, which no table contains, has been looked up and raised
\* UnknownItemId.
C14_Witness ==
    /\ call = [op |-> "base_difficulty_by_item_id", item_id |-> 9999]
    /\ call_ret = Raised("UnknownItemId")

C16_PotionCap ==
    call.op = "potion_cap" =>
        /\ call_ret.err = "none"
        /\ call.level \notin DOMAIN self.max_by_level => call_ret.val = call.fallback
        /\ call.level \in DOMAIN self.max_by_level =>
              call_ret.val = self.max_by_level[call.level]

\* potion_cap(5, fallback=99) has returned 99 on the whole payload.
C16_Witness ==
    /\ call = [op |-> "potion_cap", level |-> 5, fallback |-> 99]
    /\ DOMAIN self.max_by_level = {0, 1, 10}
    /\ call_ret = Returned(99)

(***************************************************************************)
(* Properties of parse_recipe                                              *)
(***************************************************************************)

\* The '+'-separated segments of the recipe string, blanks left out.
Segments == Split(RemoveSpaces(recipe_field.s), "+")

\* An integer in plain decimal writing: an optional sign and digits.
IsIntegerText(t) ==
    LET body == IF Len(t) > 0 /\ t[1] \in {"+", "-"} THEN Tail(t) ELSE t
    IN  body # <<>> /\ \A k \in 1..Len(body) : body[k] \in DigitChars

\* The places of segment seg where an underscore stands between two
\* integers in plain decimal writing (at most one place).
PlainForm(seg) ==
    { u \in 1..Len(seg) :
        /\ seg[u] = "_"
        /\ IsIntegerText(SubSeq(seg, 1, u - 1))
        /\ IsIntegerText(SubSeq(seg, u + 1, Len(seg))) }

\* The pairs the claim as stated expects from the k-th segment on: one
\* (ID, QTY) for every segment of the form QTY_ID with integers QTY and ID.
RECURSIVE StatedPairs(_, _)
StatedPairs(segs, k) ==
    IF k > Len(segs) THEN <<>>
    ELSE LET seg == segs[k]
             here == IF PlainForm(seg) = {} THEN <<>>
                     ELSE LET u == CHOOSE u \in PlainForm(seg) : TRUE
                          IN  << <<ParseInt(SubSeq(seg, u + 1, Len(seg))).val,
                                   ParseInt(SubSeq(seg, 1, u - 1)).val>> >>
         IN  here \o StatedPairs(segs, k + 1)

\* C17, as stated: parse_recipe returns, in input order, one (materialId,
\* quantity) pair for every '+'-separated segment of the form QTY_ID with
\* integer QTY and ID and nothing for a malformed segment; a recipe that is
\* no string or is empty gives the empty list; nothing is raised.
C17_ParseRecipeAsStated ==
    recipe_ret # Uncalled =>
        /\ recipe_ret.err = "none"
        /\ (recipe_field.kind # "str" \/ recipe_field.s = <<>>) => recipe_ret.val = <<>>
        /\ recipe_field.kind = "str" => recipe_ret.val = StatedPairs(Segments, 1)

\* The place of the first underscore of segment seg, when the text before
\* it is a QTY > 0 and the text after it an ID >= 0 as int() reads them.
AcceptedForm(seg) ==
    { u \in 1..Len(seg) :
        /\ seg[u] = "_"
        /\ \A j \in 1..(u - 1) : seg[j] # "_"
        /\ LET qty == ParseInt(SubSeq(seg, 1, u - 1))
               mid == ParseInt(SubSeq(seg, u + 1, Len(seg)))
           IN  /\ qty.err = "none" /\ mid.err = "none"
               /\ qty.val > 0 /\ mid.val >= 0 }

RECURSIVE AcceptedPairs(_, _)
AcceptedPairs(segs, k) ==
    IF k > Len(segs) THEN <<>>
    ELSE LET seg == segs[k]
             here == IF AcceptedForm(seg) = {} THEN <<>>
                     ELSE LET u == CHOOSE u \in AcceptedForm(seg) : TRUE
                          IN  << <<ParseInt(SubSeq(seg, u + 1, Len(seg))).val,
                                   ParseInt(SubSeq(seg, 1, u - 1)).val>> >>
         IN  here \o AcceptedPairs(segs, k + 1)

\* C17, amended: parse_recipe returns, in input order, one (materialId,
\* quantity) pair for every '+'-separated segment that, blanks removed,
\* splits at its first underscore into a QTY and an ID that int() accepts,
\* with QTY > 0 and ID >= 0, and nothing for any other segment; a recipe
\* that is no string or is empty gives the empty list; nothing is raised.
C17_ParseRecipe ==
    recipe_ret # Uncalled =>
        /\ recipe_ret.err = "none"
        /\ (recipe_field.kind # "str" \/ recipe_field.s = <<>>) => recipe_ret.val = <<>>
        /\ recipe_field.kind = "str" => recipe_ret.val = AcceptedPairs(Segments, 1)

\* "10_713+0_713+5_528" has been parsed: the segment with quantity 0 gave
\* nothing, the other two their pairs in order.
C17_Witness ==
    /\ recipe_field = StrValue(<<"1", "0", "_", "7", "1", "3", "+", "0", "_", "7", "1", "3",
                                 "+", "5", "_", "5", "2", "8">>)
    /\ recipe_ret = Returned(<< <<713, 10>>, <<528, 5>> >>)

(***************************************************************************)
(* Properties of the production-cost rows                                  *)
(***************************************************************************)

\* The row of final item iid in the table.
RowOf(iid) == cost_rows[CHOOSE k \in 1..Len(cost_rows) : cost_rows[k].iid = iid]

FinalItems == {final_item_ids[k] : k \in 1..Len(final_item_ids)}

\* The price of a material in the current price table: the entry under the
\* decimal writing of its id, 0 without one.
PriceNow(mid) ==
    IF IntToStr(mid) \in DOMAIN _prices_cache THEN _prices_cache[IntToStr(mid)] ELSE 0

\* The sum of price * quantity over the first n pairs of a recipe.
RECURSIVE CostOfPairs(_, _)
CostOfPairs(recipe, n) ==
    IF n = 0 THEN 0
    ELSE CostOfPairs(recipe, n - 1) + PriceNow(recipe[n][1]) * recipe[n][2]

\* C18: the materials cost in the row of every final item is the sum, over
\* the (materialId, quantity) pairs of its recipe, of price(materialId) *
\* quantity from the current price table, a material without entry counting
\* 0; the recipe [(713,10),(509,10)] with prices {713: 5, 509: 3} costs 80.
C18_MaterialsCost ==
    \A iid \in FinalItems :
        LET recipe == parsed_recipe(iid)
        IN  /\ RowOf(iid).mat = CostOfPairs(recipe, Len(recipe))
            /\ ( /\ recipe = << <<713, 10>>, <<509, 10>> >>
                 /\ PriceNow(713) = 5 /\ PriceNow(509) = 3 ) => RowOf(iid).mat = 80

\* With the prices {713: 5, 509: 3} the row of item 1001, whose recipe is
\* [(713,10),(509,10)], shows 80, and the row of item 1005, whose recipe
\* is [(713,3)], shows 15.
C18_Witness ==
    /\ DOMAIN _prices_cache = {<<"7", "1", "3">>, <<"5", "0", "9">>}
    /\ _prices_cache[<<"7", "1", "3">>] = 5
    /\ _prices_cache[<<"5", "0", "9">>] = 3
    /\ parsed_recipe(1001) = << <<713, 10>>, <<509, 10>> >>
    /\ RowOf(1001).mat = 80
    /\ RowOf(1005).mat = 15

\* C19: in every row the unit cost is the materials cost divided by the
\* mean when the mean is > 0, and is None (no number: not 0, not infinite)
\* when the mean is <= 0 or no summary exists; a row exists for every final
\* item, so nothing was raised.
C19_UnitCost ==
    /\ {cost_rows[k].iid : k \in 1..Len(cost_rows)} = FinalItems
    /\ \A k \in 1..Len(cost_rows) :
          LET row == cost_rows[k]
          IN  /\ row.mean.den > 0
              /\ row.mean.num > 0 =>
                    /\ row.unit # NoneValue
                    /\ row.unit.den # 0
                    /\ row.unit.num * row.mean.num = row.mat * row.mean.den * row.unit.den
              /\ row.mean.num <= 0 => row.unit = NoneValue

\* After a calculate with materials priced, the row of item 1001 has mean 2
\* and unit cost 80 / 2, and the row of item 1003 has a negative mean and
\* no unit cost.
C19_Witness ==
    /\ _pharmacy_special_snapshot # NoneValue
    /\ RowOf(1001).mat = 80
    /\ RowOf(1001).mean = Ratio(1694, 847)
    /\ RowOf(1001).unit.num = 40 * RowOf(1001).unit.den
    /\ RowOf(1003).mean.num < 0
    /\ RowOf(1003).mat > 0
    /\ RowOf(1003).unit = NoneValue

\* The items the last calculate computed a summary for: every rules item.
SummarizedItems == {AppRules.item_ids[k] : k \in 1..Len(AppRules.item_ids)}

\* The weighted average the last calculate computed for item iid.
ComputedMean(iid) ==
    ItemSummary(iid, _pharmacy_special_snapshot.results, spin_adv,
                _pharmacy_special_snapshot.max_cap).row.mean_weighted

\* C20: the mean in the row of every final item equals the weighted
\* average of that same item in the most recent per-item summary, and is 0
\* only when no summary has been computed for the item.
C20_MeanIsItemsWeightedAverage ==
    \A iid \in FinalItems :
        IF _pharmacy_special_snapshot # NoneValue /\ iid \in SummarizedItems
        THEN RowOf(iid).mean.num * ComputedMean(iid).den
                 = ComputedMean(iid).num * RowOf(iid).mean.den
        ELSE RowOf(iid).mean = Zero

(***************************************************************************)
(* Properties of the pharmacy snapshot                                     *)
(***************************************************************************)

\* The name calculate files the summary of a rules item under.
SummaryName(item_id) ==
    IF id_to_name(item_id) = NoneValue THEN PharmacyPlaceholder(item_id)
    ELSE id_to_name(item_id).s

\* The rules items, and those whose summary the snapshot holds: per_item
\* keeps, under one name, the summary of the last item of that name.
RulesItems == {AppRules.item_ids[k] : k \in 1..Len(AppRules.item_ids)}

PublishedItems ==
    { AppRules.item_ids[k] : k \in
        { k \in 1..Len(AppRules.item_ids) :
            \A j \in (k + 1)..Len(AppRules.item_ids) :
                SummaryName(AppRules.item_ids[j]) # SummaryName(AppRules.item_ids[k]) } }

\* a / b = c / d for two ratios of positive denominators.
SameRatio(x, y) == x.num * y.den = y.num * x.den

\* C21: the weighted average of every published per-item summary equals
\* cap*P(MAX) + (cap-3)*P(MAX-3) + (cap-4)*P(MAX-4) + (cap-5)*P(MAX-5) +
\* (cap-6)*P(MAX-6), cap being potion_cap(level of the recompute, fallback =
\* largest enumerated outcome) and the P values the bucket probabilities
\* of that item over the outcomes of the same snapshot.
C21_WeightedAverage ==
    _pharmacy_special_snapshot # NoneValue =>
        LET snap == _pharmacy_special_snapshot
            cap == potion_cap(AppRules, spin_adv,
                              MaxOver(snap.results, 1, Len(snap.results))).val
        IN  /\ snap.max_cap = cap
            /\ \A iid \in PublishedItems :
                  LET row == snap.per_item[SummaryName(iid)]
                      looked == item_difficulty(AppRules, iid, spin_adv)
                  IN  /\ {row.p_m3.den, row.p_m4.den, row.p_m5.den, row.p_m6.den}
                             = {row.p_max.den}
                      /\ SameRatio(row.mean_weighted,
                                   Ratio( cap * row.p_max.num
                                            + (cap - 3) * row.p_m3.num
                                            + (cap - 4) * row.p_m4.num
                                            + (cap - 5) * row.p_m5.num
                                            + (cap - 6) * row.p_m6.num,
                                          row.p_max.den ))
                      /\ looked.err = "none" =>
                            LET distro == pharmacy_special_probability_by_ranges(
                                              snap.results, looked.val).val
                            IN  /\ SameRatio(row.p_max, distro["MAX"].prob)
                                /\ SameRatio(row.p_m3, distro["MAX-3"].prob)
                                /\ SameRatio(row.p_m4, distro["MAX-4"].prob)
                                /\ SameRatio(row.p_m5, distro["MAX-5"].prob)
                                /\ SameRatio(row.p_m6, distro["MAX-6"].prob)

\* At level 10 (cap 10) the outcomes of scenario 2 put item 1001 in MAX 357
\* times and in MAX-3 490 times of 847: its average is (10*357 + 7*490)/847.
C21_Witness ==
    /\ _pharmacy_special_snapshot # NoneValue
    /\ spin_adv = 10
    /\ _pharmacy_special_snapshot.max_cap = 10
    /\ _pharmacy_special_snapshot.per_item[<<"B", "a">>].p_max = Ratio(357, 847)
    /\ _pharmacy_special_snapshot.per_item[<<"B", "a">>].p_m3 = Ratio(490, 847)
    /\ _pharmacy_special_snapshot.per_item[<<"B", "a">>].mean_weighted = Ratio(7000, 847)

(***************************************************************************)
(* More properties of the production-cost rows                             *)
(***************************************************************************)

\* The catalog items of type final.
CatalogFinals ==
    {CatalogRows[k].id : k \in {j \in 1..Len(CatalogRows) : CatalogRows[j].type = "final"}}

\* C22: the rows are exactly one per catalog item of type final, each under
\* the item's display name, ordered by case-insensitive name and, for equal
\* such names, by ascending id; the order is that of the keys alone, not
\* that of the catalog.
C22_OneRowPerFinalSorted ==
    /\ Len(cost_rows) = Cardinality(CatalogFinals)
    /\ {cost_rows[k].iid : k \in 1..Len(cost_rows)} = CatalogFinals
    /\ \A k \in 1..Len(cost_rows) :
          cost_rows[k].name = IF id_to_name(cost_rows[k].iid) = NoneValue
                              THEN CostPlaceholder(cost_rows[k].iid)
                              ELSE id_to_name(cost_rows[k].iid).s
    /\ \A k \in 1..(Len(cost_rows) - 1) :
          LET r == cost_rows[k]
              q == cost_rows[k + 1]
          IN  \/ StrLess(casefold(r.name), casefold(q.name))
              \/ casefold(r.name) = casefold(q.name) /\ r.iid < q.iid

\* After a calculate the rows are those of 1002 ("#1002"), 1003 ("ab"),
\* 1001 ("Ba") and 1005 ("BA"); the catalog lists 1005 first, "BA" < "Ba"
\* as written, and the two names are equal case-insensitively.
C22_Witness ==
    /\ _pharmacy_special_snapshot # NoneValue
    /\ [k \in 1..Len(cost_rows) |-> cost_rows[k].iid] = <<1002, 1003, 1001, 1005>>
    /\ CatalogRows[1].id = 1005
    /\ cost_rows[3].name = <<"B", "a">>
    /\ cost_rows[4].name = <<"B", "A">>

(***************************************************************************)
(* More properties of the pharmacy snapshot                                *)
(***************************************************************************)

\* The row of an item whose turn of the loop raised.
FailedRow ==
    [ difficulty |-> 0, p_max |-> Zero, p_m3 |-> Zero, p_m4 |-> Zero, p_m5 |-> Zero,
      p_m6 |-> Zero, mean_weighted |-> Zero ]

C24_CompleteSnapshotOrNone ==
    /\ [](_pharmacy_special_snapshot # NoneValue =>
             /\ Len(_pharmacy_special_snapshot.results) = PHARMACY_SPECIAL_TOTAL_COMBOS
             /\ Cardinality(DOMAIN _pharmacy_special_snapshot.per_item)
                    = Cardinality(RulesItems))
    /\ [][calc_ret'.err \notin {"none", "uncalled"} /\ api_call' = NoCall =>
             /\ _pharmacy_special_snapshot' = _pharmacy_special_snapshot
             /\ emitted' = <<>>]_vars

(***************************************************************************)
(* More properties of special_pharmacy                                     *)
(***************************************************************************)

\* int + floor(dex/2) + luck + job_level + r1 + (base_level - 100)
\* + potion_research_level*5 + protection_level*r2 for the call made.
FlooredSum ==
    inp.int_stat + (inp.des_stat \div 2) + inp.sor_stat + inp.job_level + draw.r1
        + (inp.base_level - 100) + inp.potion_research_level * 5
        + inp.chemical_protection_level * draw.r2

C26_RowsOfLatestPublishes ==
    cost_rows = _recompute(_pharmacy_special_snapshot, _prices_cache)

\* Prices have been published after a pharmacy snapshot: the rows show the
\* new prices (10 * 5 + 10 * 3 for item 1001) next to the mean of the
\* snapshot published before.
C26_Witness ==
    /\ _pharmacy_special_snapshot # NoneValue
    /\ emitted # <<>>
    /\ emitted[1].signal = "base_prices_changed"
    /\ emitted[1].payload = _base_prices_snapshot
    /\ _prices_cache = Put(Put(EmptyDict, <<"7", "1", "3">>, 5), <<"5", "0", "9">>, 3)
    /\ RowOf(1001).mat = 80
    /\ RowOf(1001).mean.num > 0

(***************************************************************************)
(* Properties of the price cache and the base-prices snapshot              *)
(***************************************************************************)

\* C27: after any sequence of set_prices_live, save_prices_blob,
\* reset_prices_to_default and load_prices_blob the price cache and the
\* base-prices snapshot agree: by_id[int(k)] = cache[k] for every cached
\* key k and by_id has no other id, count is the number of cached entries,
\* and rows is sorted by case-insensitive name, then id.
C27_CacheAndSnapshotAgree ==
    LET snap == _base_prices_snapshot
        cache == _prices_cache
    IN  /\ \A k \in DOMAIN cache :
              /\ ParseInt(k).err = "none"
              /\ ParseInt(k).val \in DOMAIN snap.by_id
              /\ snap.by_id[ParseInt(k).val] = cache[k]
        /\ \A iid \in DOMAIN snap.by_id : \E k \in DOMAIN cache : ParseInt(k) = Returned(iid)
        /\ snap.count = Cardinality(DOMAIN cache)
        /\ \A j, k \in 1..Len(snap.rows) :
              j < k => PriceRowNotAfter(snap.rows[j], snap.rows[k])

(***************************************************************************)
(* Properties of the setters and of the profile operations                 *)
(***************************************************************************)

\* What a step that calls the setter op does to its group, old before and
\* new after the call: the fields named in the updates that the group has
\* take the given values and no other field changes; if that changes no
\* field nothing of the application changes and nothing is emitted, else
\* exactly one signal is emitted, the group's own, carrying the new group.
SetterStep(op, old, new, signal) ==
    api_call'.op = op =>
        LET updates == api_call'.updates
            changed == {f \in (DOMAIN updates) \cap (DOMAIN old) : updates[f] # old[f]}
        IN  /\ DOMAIN new = DOMAIN old
            /\ \A f \in DOMAIN old :
                  new[f] = IF f \in DOMAIN updates THEN updates[f] ELSE old[f]
            /\ IF changed = {}
               THEN /\ emitted' = <<>>
                    /\ UNCHANGED <<characterVars, spinVars, _recalc_timer, priceVars,
                                   _pharmacy_special_snapshot, cost_rows, calc_ret,
                                   fileVars>>
               ELSE /\ new # old
                    /\ emitted' = <<Signal(signal, new)>>

\* C28: a call of set_stats, set_levels, set_skills or set_buffs whose
\* updates leave every field at its current value, or name only unknown
\* keys, changes no state and emits no signal; a call that changes a field
\* updates exactly the named existing fields, emits exactly one signal, of
\* its own group and carrying the full new state, and leaves the other
\* three groups unchanged.
C28_SettersChangeAndEmitOnce ==
    [][ /\ SetterStep("set_stats", _stats, _stats', "stats_changed")
        /\ SetterStep("set_levels", _levels, _levels', "levels_changed")
        /\ SetterStep("set_skills", _skills, _skills', "skills_changed")
        /\ SetterStep("set_buffs", _buffs, _buffs', "buffs_changed")
        /\ api_call'.op = "set_stats" => UNCHANGED <<_levels, _skills, _buffs>>
        /\ api_call'.op = "set_levels" => UNCHANGED <<_stats, _skills, _buffs>>
        /\ api_call'.op = "set_skills" => UNCHANGED <<_stats, _levels, _buffs>>
        /\ api_call'.op = "set_buffs" => UNCHANGED <<_stats, _levels, _skills>>
      ]_vars

\* set_buffs has been called with Gloria off and a key that is no buff,
\* on a character with Gloria on: Gloria is off and buffs_changed has been
\* emitted once with all six toggles.
C28_Witness ==
    /\ api_call.op = "set_buffs"
    /\ DOMAIN api_call.updates = {"gloria", "kyrie"}
    /\ ~_buffs.gloria
    /\ DOMAIN _buffs = BuffKeys
    /\ emitted = <<Signal("buffs_changed", _buffs)>>
    /\ _recalc_timer

\* The arguments of the enumeration taken from the state: its effective
\* stats, its levels and its skill levels.
StateInputs ==
    PageInputsOf(apply_buffs(_stats, _buffs), _levels.job_level, _levels.base_level,
                 _skills.potion_research, _skills.chemical_protection_full)

\* C29: every change of stats, levels, skills or buffs restarts the one
\* single-shot timer, so a burst of changes is followed by one calculate,
\* after its last change; and once the timer has fired and no change is
\* pending, the published pharmacy snapshot is the one computed from the
\* effective stats, the levels and the skill levels of the state.
C29_SnapshotOfFinalState ==
    /\ [][ (emitted' # <<>> /\ emitted'[1].signal \in {"stats_changed", "levels_changed",
                                                       "skills_changed", "buffs_changed"})
              => _recalc_timer' ]_vars
    /\ []( (PageBuilt /\ ~_recalc_timer) =>
              /\ _pharmacy_special_snapshot # NoneValue
              /\ _skills.advanced_pharmacy = Skills.advanced_pharmacy
              /\ _pharmacy_special_snapshot = PageSnapshot[StateInputs] )

(***************************************************************************)
(* Properties of the operations that read a source file                    *)
(***************************************************************************)

\* The source file of the operation api_call records, as the operation is
\* handed it.
SourcePath(made) ==
    IF made.op = "import_profile_from_file" THEN made.file_path
    ELSE IF made.op = "reset_profile_to_default" THEN PathTo(profile_default_file)
    ELSE PathTo(prices_default_file)

\* C30: when import_profile_from_file, reset_profile_to_default or
\* reset_prices_to_default cannot read a JSON object from its source file,
\* it raises RuntimeError, writes no file, emits no signal, and leaves
\* stats, levels, skills, buffs, the price cache and both snapshots as they
\* were before the call.
C30_FailedReadChangesNothing ==
    [][ ( /\ api_call'.op \in {"import_profile_from_file", "reset_profile_to_default",
                               "reset_prices_to_default"}
          /\ ~( /\ SourcePath(api_call').type = "Path"
                /\ SourcePath(api_call').file.kind = "dict" ) )
        => /\ api_call'.ret = Raised("RuntimeError")
           /\ emitted' = <<>>
           /\ UNCHANGED <<fileVars, characterVars, priceVars,
                          _pharmacy_special_snapshot>> ]_vars

\* A reset of the profile has found a list in the default file, after the
\* page has published a snapshot, and the character is no longer the
\* default one.
C30_Witness ==
    /\ api_call = ApiCall("reset_profile_to_default", Raised("RuntimeError"))
    /\ profile_default_file = JsonList
    /\ _pharmacy_special_snapshot # NoneValue
    /\ _stats # CharacterStats

====
